---- MODULE Spec2Model ----
(***************************************************************************)
(* Model of the text patcher of the KiCad JLCPCB importer plugin:          *)
(*   symbol_editor.py    SymbolEditor                                      *)
(*   lib_tables.py       LibTablesManager                                  *)
(*   footprint_editor.py FootprintEditor                                   *)
(*   easyeda_importer.py EasyedaImporter.import_part                       *)
(*   mainwindow.py       AssignLCSCMainDialog.select_part                  *)
(*                                                                         *)
(* A Python str is modelled as a sequence of lexemes (TLA+ strings): each   *)
(* parenthesis, double quote and white-space character is a lexeme of its  *)
(* own, and so is each word.  Every literal and regular expression of the  *)
(* source starts and ends on lexeme boundaries, so str.find, `in`,         *)
(* startswith, slicing, concatenation and the regular expressions are      *)
(* computed on lexemes exactly as the code computes them on characters.    *)
(* Positions are 1-based: Python index p is position p + 1.  A span        *)
(* <<s, e>> is half open like Python's (s, e): it covers s .. e - 1.       *)
(* "Not found" (Python's -1, or a match object of None) is position 0.     *)
(***************************************************************************)
EXTENDS Integers, Sequences, FiniteSets, TLC

VARIABLES
    sym_file,     \* content of the .kicad_sym file on disk (sym_path)
    symbol_id,    \* SymbolEditor.symbol_id
    text,         \* SymbolEditor._text
    block_span,   \* SymbolEditor._block_span: <<s, e>>, or <<>> for None
    block,        \* SymbolEditor._block
    args,         \* what this editor's client passes: [prefix, properties, category]
    op,           \* the last call made: [name, strip_ids]
    ret,          \* what the last call returned: [raised, value]
    calls,        \* number of edit calls made on this editor so far
    cwd,          \* the process's working directory (os.getcwd())
    disk,         \* the generated libraries on disk: the paths of the .kicad_sym
                  \* files and of the .pretty and .3dshapes directories
    sym_tbl,      \* content of <project>/sym-lib-table, "" when there is none
    fp_tbl,       \* content of <project>/fp-lib-table, "" when there is none
    tbl,          \* the last LibTablesManager call and what it returned
    mods,         \* the files below the library directory: <<[path, text], ...>>
    fpe,          \* the last FootprintEditor call and what it returned
    part,         \* the row of the part list that select_part was called on
    imp,          \* the import worker: where import_part is and what it returned
    dlg,          \* the dialog: its fields, its settings and its worker threads
    scan          \* a call of _find_blocks: its argument and what it returned

editorVars == <<sym_file, symbol_id, text, block_span, block, args, op, ret, calls>>
tableVars == <<disk, sym_tbl, fp_tbl, tbl>>
footprintVars == <<mods, fpe>>
importVars == <<part, imp, dlg, scan>>
vars == <<editorVars, cwd, tableVars, footprintVars, importVars>>

-----------------------------------------------------------------------------
(* Lexemes *)

QT == "\""
LP == "("
RP == ")"
SP == " "
NL == "\n"
CR == "\r"

\* What Python's \s and str.strip() treat as white space.
WS == {" ", "\n", "\r", "\t"}
\* What str.splitlines() and the regular expressions' "." treat as a line end.
LineEnds == {"\n", "\r"}
\* Lexemes matched by \d+ .
Digits == {"0", "1", "2", "3", "4", "5", "6", "7", "8", "9", "10", "11", "12"}

-----------------------------------------------------------------------------
(* str primitives *)

Min(S) == CHOOSE x \in S : \A y \in S : x <= y
Max(S) == CHOOSE x \in S : \A y \in S : x >= y

\* s[i], or the empty lexeme past either end
At(s, i) == IF i \in 1..Len(s) THEN s[i] ELSE ""

\* s[a:b]
Slice(s, a, b) == SubSeq(s, a, b - 1)

\* s[a:]
Tail_(s, a) == SubSeq(s, a, Len(s))

\* s[:b]
Head_(s, b) == SubSeq(s, 1, b - 1)

MatchAt(s, i, p) == /\ i >= 1
                    /\ i + Len(p) - 1 <= Len(s)
                    /\ (p # <<>> => s[i] = p[1])
                    /\ SubSeq(s, i, i + Len(p) - 1) = p

\* s.startswith(p)
StartsWith(s, p) == MatchAt(s, 1, p)

\* s.find(p, from)
Find(s, p, from) ==
    LET First(hits) == IF hits = {} THEN 0 ELSE Min(hits)
    IN  First({i \in from..(Len(s) - Len(p) + 1) : MatchAt(s, i, p)})

\* s.rfind(p)
RFind(s, p) ==
    LET Last(hits) == IF hits = {} THEN 0 ELSE Max(hits)
    IN  Last({i \in 1..(Len(s) - Len(p) + 1) : MatchAt(s, i, p)})

\* p in s
Contains(s, p) == Find(s, p, 1) # 0

\* first position >= i that holds no white space (the end of a greedy \s*)
RECURSIVE SkipWS(_, _)
SkipWS(s, i) == IF At(s, i) \in WS THEN SkipWS(s, i + 1) ELSE i

\* last position <= i that holds no white space, 0 if there is none
RECURSIVE SkipWSBack(_, _)
SkipWSBack(s, i) == IF i >= 1 /\ s[i] \in WS THEN SkipWSBack(s, i - 1) ELSE i

\* s.rstrip()
RStrip(s) == SubSeq(s, 1, SkipWSBack(s, Len(s)))

\* s.strip()
Strip(s) == SubSeq(s, SkipWS(s, 1), SkipWSBack(s, Len(s)))

\* len(s) - len(s.lstrip()) leading lexemes of s
LeadingWS(s) == SubSeq(s, 1, SkipWS(s, 1) - 1)

\* s.replace('"', "'")
ReplaceQuotes(s) == [i \in 1..Len(s) |-> IF s[i] = QT THEN "'" ELSE s[i]]

\* number of characters of the lexemes a .. b of s (summed by halves)
RECURSIVE CharLen(_, _, _)
CharLen(s, a, b) ==
    IF a > b THEN 0
    ELSE IF a = b THEN Len(s[a])
    ELSE LET mid == (a + b) \div 2
         IN  CharLen(s, a, mid) + CharLen(s, mid + 1, b)

\* the largest k in lo .. hi such that the first k lexemes of s have at most n
\* characters, given that the first lo lexemes have (bisection)
RECURSIVE FitCount(_, _, _, _)
FitCount(s, n, lo, hi) ==
    IF lo = hi THEN lo
    ELSE LET mid == (lo + hi + 1) \div 2
         IN  IF CharLen(s, 1, mid) <= n THEN FitCount(s, n, mid, hi)
             ELSE FitCount(s, n, lo, mid - 1)

\* s[:n] for n characters: the lexemes that lie wholly inside the first n characters
CharPrefix(s, n) == SubSeq(s, 1, FitCount(s, n, 0, Len(s)))

\* position just after the first QT at or after i, 0 if there is none:
\* the end of "[^\"]*\"" started at i
RECURSIVE CloseQuote(_, _)
CloseQuote(s, i) ==
    IF i > Len(s) THEN 0
    ELSE IF s[i] = QT THEN i + 1
    ELSE CloseQuote(s, i + 1)

\* Path.read_text(): what a file that holds s on disk is read as.  Text mode
\* reads with universal newlines: "\r\n" and a lone "\r" become "\n".
\* (Path.write_text() on POSIX writes a str as it is.)
RECURSIVE ReadFrom(_, _)
ReadFrom(s, i) ==
    LET Line(k) == Slice(s, i, k) \o <<NL>>
                   \o ReadFrom(s, IF At(s, k + 1) = NL THEN k + 2 ELSE k + 1)
        Translated(crs) == IF crs = {} THEN Tail_(s, i) ELSE Line(Min(crs))
    IN  Translated({k \in i..Len(s) : s[k] = CR})

read_text(s) == ReadFrom(s, 1)

-----------------------------------------------------------------------------
(* Optional[str] *)

\* Python's None where a str is expected
None == <<"<None>">>

\* x or d
Or(x, d) == IF x = None \/ x = <<>> THEN d ELSE x

\* bool(x) of an Optional[str]
Truthy(x) == x # None /\ x # <<>>

-----------------------------------------------------------------------------
(* SymbolEditor: low-level helpers *)

SYMBOL_OPEN == <<LP, "symbol", SP>>      \* "(symbol "
PIN_OPEN == <<LP, "pin", SP>>            \* "(pin "

\* The value of `depth` in the inner while loop of _find_blocks and
\* _find_pin_blocks after the character at position i has been counted.
Depth(src, start, i) ==
    Cardinality({k \in start..i : src[k] = LP}) - Cardinality({k \in start..i : src[k] = RP})

\* The inner while loop: the position just after the first ")" at which depth
\* is 0, or 0 (end = -1) when the loop runs off the end of src.
ScanClose(src, start) ==
    LET closes == {i \in start..Len(src) : src[i] = RP /\ Depth(src, start, i) = 0}
    IN  IF closes = {} THEN 0 ELSE Min(closes) + 1

\* The outer loop of _find_blocks from idx on.  "start + 7" is the last
\* character of "(symbol ", which is its third lexeme.
RECURSIVE FindBlocksFrom(_, _)
FindBlocksFrom(src, idx) ==
    LET Closed(start, end) ==
            IF end # 0
            THEN <<<<start, end>>>> \o FindBlocksFrom(src, end)
            ELSE FindBlocksFrom(src, start + (Len(SYMBOL_OPEN) - 1))
        Opened(start) == IF start = 0 THEN <<>> ELSE Closed(start, ScanClose(src, start))
    IN  Opened(Find(src, SYMBOL_OPEN, idx))

_find_blocks(src) == FindBlocksFrom(src, 1)

\* The outer loop of _find_pin_blocks from idx on.
RECURSIVE FindPinBlocksFrom(_, _)
FindPinBlocksFrom(src, idx) ==
    LET Closed(start, end) ==
            IF end # 0
            THEN <<<<start, end>>>> \o FindPinBlocksFrom(src, end)
            ELSE FindPinBlocksFrom(src, start + 1)
        Opened(start) == IF start = 0 THEN <<>> ELSE Closed(start, ScanClose(src, start))
    IN  Opened(Find(src, PIN_OPEN, idx))

_find_pin_blocks(src) == FindPinBlocksFrom(src, 1)

\* \(property\s*"<name>"  matched at position i: the position just after the
\* quote that closes the name, or 0 when the expression does not match at i.
PropNameAt(b, i, name) ==
    LET Named(j) ==
            IF At(b, j) = QT /\ MatchAt(b, j + 1, name) /\ At(b, j + 1 + Len(name)) = QT
            THEN j + 2 + Len(name)
            ELSE 0
    IN  IF At(b, i) = LP /\ At(b, i + 1) = "property"
        THEN Named(SkipWS(b, i + 2))
        ELSE 0

\* \(property\s*"<name>"\s*"  matched at position i: the position of the first
\* lexeme of the value, or 0 when the expression does not match at i.
PropHeadAt(b, i, name) ==
    LET Quoted(k) == IF At(b, k) = QT THEN k + 1 ELSE 0
        Valued(n) == IF n = 0 THEN 0 ELSE Quoted(SkipWS(b, n))
    IN  Valued(PropNameAt(b, i, name))

\* re.search(\(property\s*"<name>"\s*"([^"]*)", block): the first match as
\* [at, vs, ve] (match start, value span), or at = 0 for None.
NoMatch == [at |-> 0, vs |-> 0, ve |-> 0]

PropSearch(b, name) ==
    LET Closed(vs) == vs # 0 /\ CloseQuote(b, vs) # 0
        Matched(i, vs) == [at |-> i, vs |-> vs, ve |-> CloseQuote(b, vs) - 1]
        First(i) == Matched(i, PropHeadAt(b, i, name))
        Searched(hits) == IF hits = {} THEN NoMatch ELSE First(Min(hits))
    IN  Searched({i \in 1..Len(b) : Closed(PropHeadAt(b, i, name))})

_prop_exists(b, name) == \E i \in 1..Len(b) : PropHeadAt(b, i, name) # 0

_get_prop_value(b, name) ==
    LET Group(m) == IF m.at = 0 THEN None ELSE Slice(b, m.vs, m.ve)
    IN  Group(PropSearch(b, name))

\* returns [block, modified]
_set_prop_value(b, name, new_value) ==
    LET Set(m) ==
            IF m.at = 0 THEN [block |-> b, modified |-> FALSE]
            ELSE IF Slice(b, m.vs, m.ve) = new_value THEN [block |-> b, modified |-> FALSE]
            ELSE [block |-> Head_(b, m.vs) \o ReplaceQuotes(Or(new_value, <<>>))
                            \o Tail_(b, m.ve),
                  modified |-> TRUE]
    IN  Set(PropSearch(b, name))

\* str.splitlines() from position i on
RECURSIVE SplitLinesFrom(_, _)
SplitLinesFrom(s, i) ==
    LET Line(p) ==
            <<Slice(s, i, p)>>
            \o SplitLinesFrom(s, IF s[p] = CR /\ At(s, p + 1) = NL THEN p + 2 ELSE p + 1)
        Split(ends) ==
            IF ends = {}
            THEN IF i > Len(s) THEN <<>> ELSE <<Tail_(s, i)>>
            ELSE Line(Min(ends))
    IN  Split({p \in i..Len(s) : s[p] \in LineEnds})

SplitLines(s) == SplitLinesFrom(s, 1)

\* re.search(\(property\s*"<name>"[\s\S]*?\), block).group(0), or None
TemplateProp(b, name) ==
    LET Close(n) == IF n = 0 THEN 0 ELSE Find(b, <<RP>>, n)
        First(i) == Slice(b, i, Close(PropNameAt(b, i, name)) + 1)
        Searched(hits) == IF hits = {} THEN None ELSE First(Min(hits))
    IN  Searched({i \in 1..Len(b) : Close(PropNameAt(b, i, name)) # 0})

\* re.search(\(<word>[^\)]*\), prop) for at, re.search(\(<word>[\s\S]*?\), prop)
\* for effects: from the first "(<word>" to the first ")" after it, or ""
ParenGroup(prop, word) ==
    LET Closed(start, close) == IF close = 0 THEN <<>> ELSE Slice(prop, start, close + 1)
        Opened(start) == IF start = 0 THEN <<>> ELSE Closed(start, Find(prop, <<RP>>, start))
    IN  Opened(Find(prop, <<LP, word>>, 1))

DEFAULT_PROP == <<LP, "property", SP, QT, "X", QT, SP, QT, "Y", QT, RP>>
DEFAULT_INDENT == <<SP, SP>>

\* returns [indent, at, effects]
_extract_template(b) ==
    LET Indent(lines, props) ==
            IF props = {} THEN DEFAULT_INDENT ELSE LeadingWS(lines[Min(props)])
        IndentOf(lines) ==
            Indent(lines, {n \in 1..Len(lines) :
                              StartsWith(Strip(lines[n]), <<LP, "property", SP>>)})
        Template(prop) ==
            [indent |-> IndentOf(SplitLines(b)),
             at |-> ParenGroup(prop, "at"),
             effects |-> ParenGroup(prop, "effects")]
        OrDefault(m) == IF m # None THEN m ELSE DEFAULT_PROP
        OrValue(fp) == IF fp # None THEN fp ELSE TemplateProp(b, <<"Value">>)
    IN  Template(OrDefault(OrValue(TemplateProp(b, <<"Footprint">>))))

DEFAULT_EFFECTS ==
    <<LP, "effects", SP, LP, "font", SP, LP, "size", SP, "1.27", SP, "1.27", RP, RP,
      SP, LP, "hide", SP, "yes", RP, RP>>
HIDE_YES == <<SP, LP, "hide", SP, "yes", RP>>

_ensure_hide_effects(effects) ==
    IF effects = <<>> \/ ~Contains(effects, <<LP, "effects">>) THEN DEFAULT_EFFECTS
    ELSE IF Contains(effects, <<"hide">>) THEN effects
    ELSE LET Hidden(idx) ==
                 IF idx = 0 THEN effects \o HIDE_YES
                 ELSE Head_(effects, idx) \o HIDE_YES \o Tail_(effects, idx)
         IN  Hidden(RFind(effects, <<RP>>))

-----------------------------------------------------------------------------
(* SymbolEditor._ensure_loaded_block *)

HEAD_LIMIT == 200

\* re.search(\(symbol\s+"<symbol_id>", head) is not None
HeadNames(head, id) ==
    \E i \in 1..Len(head) :
        /\ At(head, i) = LP
        /\ At(head, i + 1) = "symbol"
        /\ At(head, i + 2) \in WS
        /\ LET Named(j) == /\ At(head, j) = QT
                           /\ MatchAt(head, j + 1, id)
                           /\ At(head, j + 1 + Len(id)) = QT
           IN  Named(SkipWS(head, i + 2))

\* head = self._text[s : min(e, s + 200)]
BlockHead(txt, span) == CharPrefix(Slice(txt, span[1], span[2]), HEAD_LIMIT)

\* The span _ensure_loaded_block selects in txt, or <<>> when it raises ValueError.
LocateBlock(txt, id) ==
    LET Chosen(blocks, named) ==
            IF named # {} THEN blocks[Min(named)]
            ELSE IF Len(blocks) = 1 THEN blocks[1]
            ELSE <<>>
        Among(blocks) ==
            Chosen(blocks, {n \in 1..Len(blocks) : HeadNames(BlockHead(txt, blocks[n]), id)})
    IN  Among(_find_blocks(txt))

\* _load followed by _ensure_loaded_block on the editor fields
\* ed = [text, block_span, block]; ok = FALSE when ValueError is raised.
_ensure_loaded_block(ed, file, id) ==
    LET Located(txt, span) ==
            IF span = <<>>
            THEN [ok |-> FALSE, text |-> txt, block_span |-> <<>>, block |-> ed.block]
            ELSE [ok |-> TRUE, text |-> txt, block_span |-> span,
                  block |-> Slice(txt, span[1], span[2])]
        Loaded(txt) ==
            IF ed.block_span # <<>>
            THEN [ok |-> TRUE, text |-> txt, block_span |-> ed.block_span, block |-> ed.block]
            ELSE Located(txt, LocateBlock(txt, id))
    IN  Loaded(IF ed.text = <<>> THEN read_text(file) ELSE ed.text)

-----------------------------------------------------------------------------
(* SymbolEditor.ensure_footprint_prefix *)

FOOTPRINT == <<"Footprint">>
VALUE == <<"Value">>

\* The pattern of ensure_footprint_prefix matched at position i:
\* \(property\s*(?:\n\s*)?"Footprint"\s*(?:\n\s*)?"([^"]+)"
\* [at, vs, ve] or NoMatch.
FootprintMatchAt(b, i) ==
    LET Closed(vs, close) ==
            IF vs # 0 /\ close # 0 /\ close - 1 > vs
            THEN [at |-> i, vs |-> vs, ve |-> close - 1]
            ELSE NoMatch
        Valued(vs) == Closed(vs, IF vs = 0 THEN 0 ELSE CloseQuote(b, vs))
    IN  Valued(PropHeadAt(b, i, FOOTPRINT))

\* repl(m) without its "already prefixed" test
PrefixRepl_Always(mt, val, prefix) ==
    LET Replaced(p) ==
            [out |-> Head_(mt, p) \o <<QT>> \o prefix \o val \o <<QT>>
                     \o Tail_(mt, p + Len(val) + 2),
             n |-> 1]
    IN  Replaced(Find(mt, <<QT>> \o val \o <<QT>>, 1))

\* repl(m): the replacement of the matched text mt whose group(1) is val;
\* m.group(0).replace('"val"', '"prefix+val"', 1) acts on the first '"val"'.
PrefixRepl(mt, val, prefix) ==
    IF StartsWith(val, prefix) THEN [out |-> mt, n |-> 0]
    ELSE LET Replaced(p) ==
                 [out |-> Head_(mt, p) \o <<QT>> \o prefix \o val \o <<QT>>
                          \o Tail_(mt, p + Len(val) + 2),
                  n |-> 1]
         IN  Replaced(Find(mt, <<QT>> \o val \o <<QT>>, 1))

\* pattern.subn(repl, block) from position i on: [block, updates]
RECURSIVE PrefixSubFrom(_, _, _)
PrefixSubFrom(b, i, prefix) ==
    LET Joined(m, r, rest) ==
            [block |-> Slice(b, i, m.at) \o r.out \o rest.block,
             updates |-> r.n + rest.updates]
        Sub(m) ==
            Joined(m, PrefixRepl(Slice(b, m.at, m.ve + 1), Slice(b, m.vs, m.ve), prefix),
                   PrefixSubFrom(b, m.ve + 1, prefix))
        Searched(hits) ==
            IF hits = {} THEN [block |-> Tail_(b, i), updates |-> 0]
            ELSE Sub(FootprintMatchAt(b, Min(hits)))
    IN  Searched({p \in i..Len(b) : FootprintMatchAt(b, p).at # 0})

\* ensure_footprint_prefix on a located block: [block, updates]
FootprintPrefixed(b, prefix) == PrefixSubFrom(b, 1, prefix)

-----------------------------------------------------------------------------
(* SymbolEditor.apply_properties *)

\* A dict is a sequence of [name, val] records with distinct names, in
\* insertion order (the order of dict.items()).

\* properties.get(name)
Get(properties, name) ==
    LET Entry_(at) == IF at = {} THEN None ELSE properties[Min(at)].val
    IN  Entry_({i \in 1..Len(properties) : properties[i].name = name})

\* str.lower() of one lexeme, for the capitalised words of the vocabulary
LowerLex(t) ==
    CASE t = "Resistor" -> "resistor"
      [] t = "Capacitor" -> "capacitor"
      [] t = "Inductor" -> "inductor"
      [] t = "Coil" -> "coil"
      [] t = "Ferrite" -> "ferrite"
      [] t = "Bead" -> "bead"
      [] t = "Chip" -> "chip"
      [] t = "Misc" -> "misc"
      [] t = "Diode" -> "diode"
      [] t = "Network" -> "network"
      [] t = "Transformer" -> "transformer"
      [] OTHER -> t

\* str.lower()
Lower(c) == [i \in 1..Len(c) |-> LowerLex(c[i])]

\* the new_line that apply_properties inserts for a property that does not exist
NewPropertyLine(b, name, sval, hidden) ==
    LET Extra(at, eff) ==
            (IF at # <<>> THEN <<SP>> \o at ELSE <<>>)
            \o (IF eff # <<>> THEN <<SP>> \o eff ELSE <<>>)
        Effects(effects) == IF hidden THEN _ensure_hide_effects(effects) ELSE effects
        Line(t) ==
            t.indent \o <<LP, "property", SP, QT>> \o name \o <<QT, SP, QT>>
            \o ReplaceQuotes(sval) \o <<QT>> \o Extra(t.at, Effects(t.effects))
            \o <<RP, NL>>
    IN  Line(_extract_template(b))

\* One iteration of the loop with the update_empty_only test left out: a
\* property that exists is set whatever its value
ApplyOne_Overwrite(st, name, sval, current_value, update_empty_only, hidden, exclude_equal_to_value) ==
    LET Set(r) == [block |-> r.block, changes |-> st.changes + (IF r.modified THEN 1 ELSE 0)]
        Inserted(insert_at) ==
            [block |-> Head_(st.block, insert_at)
                       \o NewPropertyLine(st.block, name, sval, hidden)
                       \o Tail_(st.block, insert_at),
             changes |-> st.changes + 1]
    IN  IF sval = None THEN st
        ELSE IF Strip(name) \in {FOOTPRINT, VALUE} THEN st
        ELSE IF exclude_equal_to_value /\ Strip(sval) = current_value THEN st
        ELSE IF _prop_exists(st.block, name) THEN Set(_set_prop_value(st.block, name, sval))
        ELSE Inserted(RFind(st.block, <<RP>>))

\* One iteration of "for name, val in properties.items()" on st = [block, changes];
\* sval is val, a str or None
ApplyOne(st, name, sval, current_value, update_empty_only, hidden, exclude_equal_to_value) ==
    IF sval = None THEN st
    ELSE IF Strip(name) \in {FOOTPRINT, VALUE} THEN st
    ELSE IF exclude_equal_to_value /\ Strip(sval) = current_value THEN st
    ELSE IF _prop_exists(st.block, name)
         THEN IF update_empty_only
                 /\ Strip(Or(_get_prop_value(st.block, name), <<>>)) = <<>>
              THEN LET Set(r) == [block |-> r.block,
                                  changes |-> st.changes + (IF r.modified THEN 1 ELSE 0)]
                   IN  Set(_set_prop_value(st.block, name, sval))
              ELSE st
    ELSE LET Inserted(insert_at) ==
                 IF insert_at # 0
                 THEN [block |-> Head_(st.block, insert_at)
                                 \o NewPropertyLine(st.block, name, sval, hidden)
                                 \o Tail_(st.block, insert_at),
                       changes |-> st.changes + 1]
                 ELSE st
         IN  Inserted(RFind(st.block, <<RP>>))

\* The for loop over properties.items(), entries i .. len
RECURSIVE ApplyLoop(_, _, _, _, _, _, _)
ApplyLoop(st, properties, i, current_value, update_empty_only, hidden, exclude_equal_to_value) ==
    IF i > Len(properties) THEN st
    ELSE ApplyLoop(ApplyOne(st, properties[i].name, properties[i].val, current_value,
                            update_empty_only, hidden, exclude_equal_to_value),
                   properties, i + 1, current_value, update_empty_only, hidden,
                   exclude_equal_to_value)

Has(cat, word) == Contains(cat, <<word>>)

\* the if/elif chain with the capacitor test ahead of the resistor test
PrimaryAttribute_CapacitorFirst(cat, properties) ==
    IF Has(cat, "capacitor") THEN Get(properties, <<"Capacitance">>)
    ELSE IF Has(cat, "resistor") THEN Get(properties, <<"Resistance">>)
    ELSE IF Has(cat, "inductor") \/ Has(cat, "coil") THEN Get(properties, <<"Inductance">>)
    ELSE IF Has(cat, "ferrite") \/ Has(cat, "bead")
         THEN LET OrImpedance(a) == IF Truthy(a) THEN a ELSE Get(properties, <<"Impedance">>)
              IN  OrImpedance(Get(properties, <<"Impedance @ Frequency">>))
    ELSE None

\* The if/elif chain that picks `primary` from the lower-cased category
PrimaryAttribute(cat, properties) ==
    IF Has(cat, "resistor") THEN Get(properties, <<"Resistance">>)
    ELSE IF Has(cat, "capacitor") THEN Get(properties, <<"Capacitance">>)
    ELSE IF Has(cat, "inductor") \/ Has(cat, "coil") THEN Get(properties, <<"Inductance">>)
    ELSE IF Has(cat, "ferrite") \/ Has(cat, "bead")
         THEN LET OrImpedance(a) == IF Truthy(a) THEN a ELSE Get(properties, <<"Impedance">>)
              IN  OrImpedance(Get(properties, <<"Impedance @ Frequency">>))
    ELSE None

\* the Value update without its guard
ValueMayChange_Always(b, properties) == TRUE

\* The guard of the Value update: current Value blank, or equal to the
\* manufacturer part passed in the properties
ValueMayChange(b, properties) ==
    LET OrMfrPart(mp) == IF Truthy(mp) THEN mp ELSE Or(Get(properties, <<"MFR.Part">>), <<>>)
        May(current_value, mfr_part_prop) ==
            \/ Strip(current_value) = <<>>
            \/ (mfr_part_prop # <<>> /\ Strip(current_value) = mfr_part_prop)
    IN  May(Or(_get_prop_value(b, VALUE), <<>>),
            Strip(OrMfrPart(Get(properties, <<"Manufacturer Part">>))))

\* "if primary:" ... on st = [block, changes]
ValueUpdated(st, cat, properties) ==
    LET Set(r) == [block |-> r.block, changes |-> st.changes + (IF r.modified THEN 1 ELSE 0)]
        Updated(primary) ==
            IF Truthy(primary) /\ ValueMayChange(st.block, properties)
            THEN Set(_set_prop_value(st.block, VALUE, primary))
            ELSE st
    IN  Updated(PrimaryAttribute(cat, properties))

PASSIVES == {"resistor", "capacitor", "inductor", "coil", "ferrite", "bead"}

-----------------------------------------------------------------------------
(* SymbolEditor._normalize_two_or_fewer_pins_to_input_with_tilde *)

\* end of a greedy \S+ started at i: first position >= i holding white space,
\* or the position after the end
RECURSIVE SkipNonWS(_, _)
SkipNonWS(s, i) == IF i > Len(s) \/ s[i] \in WS THEN i ELSE SkipNonWS(s, i + 1)

\* header_re matched at position i of a pin text: the position just after the
\* match, or 0.   ^\(pin(?:\s+|\s*\n\s*)\S+(?:\s+|\s*\n\s*)\S+  (MULTILINE)
PinHeaderAt(pt, i) ==
    IF /\ (i = 1 \/ At(pt, i - 1) = NL)
       /\ At(pt, i) = LP /\ At(pt, i + 1) = "pin" /\ At(pt, i + 2) \in WS
    THEN LET Shape(a, b, c, d) ==
                 IF a <= Len(pt) /\ b > a /\ c > b /\ c <= Len(pt) /\ d > c THEN d ELSE 0
             Gap(a, b, c) == Shape(a, b, c, SkipNonWS(pt, c))
             Kind(a, b) == Gap(a, b, SkipWS(pt, b))
             Pin(a) == Kind(a, SkipNonWS(pt, a))
         IN  Pin(SkipWS(pt, i + 2))
    ELSE 0

PIN_INPUT_LINE == <<LP, "pin", SP, "input", SP, "line">>

\* header_re.subn("(pin input line", pin_text, count=1): [out, n]
PinHeaderSub(pt) ==
    LET First(i) == [out |-> Head_(pt, i) \o PIN_INPUT_LINE \o Tail_(pt, PinHeaderAt(pt, i)),
                     n |-> 1]
        Searched(hits) == IF hits = {} THEN [out |-> pt, n |-> 0] ELSE First(Min(hits))
    IN  Searched({i \in 1..Len(pt) : PinHeaderAt(pt, i) # 0})

\* name_re matched at position i: [vs, ve] the span of group 2, or vs = 0.
\* (\(name(?:\s+|\s*\n\s*)")(.*?)(")
PinNameAt(pt, i) ==
    IF At(pt, i) = LP /\ At(pt, i + 1) = "name" /\ At(pt, i + 2) \in WS
    THEN LET Closed(j, close) ==
                 IF close # 0 /\ \A k \in (j + 1)..(close - 2) : pt[k] # NL
                 THEN [vs |-> j + 1, ve |-> close - 1]
                 ELSE [vs |-> 0, ve |-> 0]
             Quoted(j) == Closed(j, IF At(pt, j) = QT THEN CloseQuote(pt, j + 1) ELSE 0)
         IN  Quoted(SkipWS(pt, i + 2))
    ELSE [vs |-> 0, ve |-> 0]

\* name_re.subn(r'\1~\3', text, count=1): [out, n]
PinNameSub(pt) ==
    LET First(m) == [out |-> Head_(pt, m.vs) \o <<"~">> \o Tail_(pt, m.ve), n |-> 1]
        Searched(hits) ==
            IF hits = {} THEN [out |-> pt, n |-> 0] ELSE First(PinNameAt(pt, Min(hits)))
    IN  Searched({i \in 1..Len(pt) : PinNameAt(pt, i).vs # 0})

\* The for loop over the pin spans, pins k .. len, prev = end of the previous pin:
\* [tail, edits] where tail is the block text from prev on
RECURSIVE PinsLoop(_, _, _, _)
PinsLoop(b, pins, k, prev) ==
    IF k > Len(pins) THEN [tail |-> Tail_(b, prev), edits |-> 0]
    ELSE LET Joined(pin_text, h, n, rest) ==
                 [tail |-> Slice(b, prev, pins[k][1]) \o n.out \o rest.tail,
                  edits |-> (IF n.out # pin_text THEN h.n + n.n ELSE 0) + rest.edits]
             Named(pin_text, h) ==
                 Joined(pin_text, h, PinNameSub(h.out), PinsLoop(b, pins, k + 1, pins[k][2]))
             Headed(pin_text) == Named(pin_text, PinHeaderSub(pin_text))
         IN  Headed(Slice(b, pins[k][1], pins[k][2]))

MAX_PINS == 2

\* the normalization without the test on the number of pins
_normalize_pins_Unbounded(b) ==
    LET Edited(r) == [block |-> r.tail, edits |-> r.edits]
    IN  Edited(PinsLoop(b, _find_pin_blocks(b), 1, 1))

\* returns [block, edits]
_normalize_two_or_fewer_pins_to_input_with_tilde(b) ==
    LET Edited(r) == [block |-> r.tail, edits |-> r.edits]
        Normalized(pins) ==
            IF pins = <<>> \/ Len(pins) > MAX_PINS THEN [block |-> b, edits |-> 0]
            ELSE Edited(PinsLoop(b, pins, 1, 1))
    IN  Normalized(_find_pin_blocks(b))

\* apply_properties on a located block: [block, changes].
\* category is None or a str.
apply_properties(b, properties, category, update_empty_only, hidden, exclude_equal_to_value) ==
    LET Pins(valued, r) == [block |-> r.block, changes |-> valued.changes + r.edits]
        Normalized(valued, cat) ==
            IF \E k \in PASSIVES : Has(cat, k)
            THEN Pins(valued, _normalize_two_or_fewer_pins_to_input_with_tilde(valued.block))
            ELSE valued
        Valued(looped, cat) ==
            IF ~Truthy(category) THEN looped
            ELSE Normalized(ValueUpdated(looped, cat, properties), cat)
    IN  Valued(ApplyLoop([block |-> b, changes |-> 0], properties, 1,
                         Strip(Or(_get_prop_value(b, VALUE), <<>>)),
                         update_empty_only, hidden, exclude_equal_to_value),
               Lower(category))

-----------------------------------------------------------------------------
(* SymbolEditor.save *)

\* \(id\s+\d+\) matched at position i: the position just after the match, or 0
IdTokenAt(t, i) ==
    IF At(t, i) = LP /\ At(t, i + 1) = "id" /\ At(t, i + 2) \in WS
    THEN LET Digit(j) == IF At(t, j) \in Digits /\ At(t, j + 1) = RP THEN j + 2 ELSE 0
         IN  Digit(SkipWS(t, i + 2))
    ELSE 0

\* re.sub(\(id\s+\d+\), "", t) from position i on
RECURSIVE StripIdsFrom(_, _)
StripIdsFrom(t, i) ==
    LET First(p) == Slice(t, i, p) \o StripIdsFrom(t, IdTokenAt(t, p))
        Searched(hits) == IF hits = {} THEN Tail_(t, i) ELSE First(Min(hits))
    IN  Searched({p \in i..Len(t) : IdTokenAt(t, p) # 0})

StripIds(t) == StripIdsFrom(t, 1)

\* save() that takes the text after the block from the edited block's length
SavedText_NewLength(ed, strip_ids) ==
    LET Stripped(new_text) == IF strip_ids THEN StripIds(new_text) ELSE new_text
    IN  Stripped(Head_(ed.text, ed.block_span[1]) \o ed.block
                 \o Tail_(ed.text, ed.block_span[1] + Len(ed.block)))

\* new_text of save(strip_ids) for editor fields ed = [text, block_span, block]
SavedText(ed, strip_ids) ==
    LET Stripped(new_text) == IF strip_ids THEN StripIds(new_text) ELSE new_text
    IN  Stripped(Head_(ed.text, ed.block_span[1]) \o ed.block
                 \o Tail_(ed.text, ed.block_span[2]))

-----------------------------------------------------------------------------
(* Input texts: .kicad_sym files in the dialect easyeda2kicad writes *)

Q(v) == <<QT>> \o v \o <<QT>>
IdTok(n) == <<SP, LP, "id", SP, n, RP>>
AtTok == <<SP, LP, "at", SP, "0", SP, "0", SP, "0", RP>>
EffectsTok ==
    <<SP, LP, "effects", SP, LP, "font", SP, LP, "size", SP, "1.27", SP, "1.27", RP, RP, RP>>

\* one property line of a symbol, with an (id n) token
PropLine(name, val, n) ==
    <<NL, SP, SP, LP, "property", SP>> \o Q(name) \o <<SP>> \o Q(val)
    \o IdTok(n) \o AtTok \o <<RP>>

PinLine(kind, num) ==
    <<NL, SP, SP, SP, SP, LP, "pin", SP, kind, SP, "line">> \o AtTok
    \o <<SP, LP, "name", SP>> \o Q(<<num>>) \o <<RP, SP, LP, "number", SP>> \o Q(<<num>>)
    \o <<RP, RP>>

\* a unit sub-symbol nested in a symbol
SubSymbol(name, pins) == <<NL, SP, SP, LP, "symbol", SP>> \o Q(name) \o pins \o <<RP>>

\* a top-level symbol block
SymbolBlock(name, props, subs) ==
    <<LP, "symbol", SP>> \o Q(name) \o props \o subs \o <<NL, RP>>

LibHeader == <<LP, "kicad_symbol_lib", SP, LP, "version", SP, "20211014", RP>>

RECURSIVE JoinBlocks(_)
JoinBlocks(blocks) ==
    IF blocks = <<>> THEN <<>>
    ELSE <<NL>> \o blocks[1] \o JoinBlocks(Tail(blocks))

SymLib(blocks) == LibHeader \o JoinBlocks(blocks) \o <<NL, RP, NL>>

\* s with "\r\n" line ends, as a file written on Windows has them
RECURSIVE DosFrom(_, _)
DosFrom(s, i) ==
    LET Line(k) == Slice(s, i, k) \o <<CR, NL>> \o DosFrom(s, k + 1)
        Translated(nls) == IF nls = {} THEN Tail_(s, i) ELSE Line(Min(nls))
    IN  Translated({k \in i..Len(s) : s[k] = NL})

Dos(s) == DosFrom(s, 1)

RC0603 == <<"RC0603">>
CL10 == <<"CL10">>
UNIT == <<"RC0603_0_1">>
FP_LCSC == <<"LCSC_", "Resistors:R0603">>
PCM == <<"PCM_">>

TwoPins == PinLine("passive", "1") \o PinLine("passive", "2")

\* the resistor as generated: Value is the manufacturer part
BlockGenerated ==
    SymbolBlock(RC0603,
                PropLine(VALUE, RC0603, "1") \o PropLine(FOOTPRINT, FP_LCSC, "2"),
                SubSymbol(UNIT, TwoPins))

\* a capacitor with an empty Value, a footprint that carries the prefix already,
\* and an empty Manufacturer property
BlockCap ==
    SymbolBlock(CL10,
                PropLine(VALUE, <<>>, "1") \o PropLine(FOOTPRINT, PCM \o <<"LCSC_", "Cap:C0603">>, "2")
                \o PropLine(<<"Manufacturer">>, <<>>, "3"),
                SubSymbol(<<"CL10_0_1">>, PinLine("passive", "1")))

\* a resistor whose Value was edited by hand, with an empty Footprint, a
\* blank Manufacturer and three pins
BlockEdited ==
    SymbolBlock(RC0603,
                PropLine(VALUE, <<"4k7">>, "1") \o PropLine(FOOTPRINT, <<>>, "2")
                \o PropLine(<<"Description">>, <<"old">>, "3")
                \o PropLine(<<"Manufacturer">>, <<SP>>, "4"),
                SubSymbol(UNIT, TwoPins \o PinLine("input", "3")))

\* a symbol with a blank Value and no Footprint property, written on one line
BlockBlank ==
    <<LP, "symbol", SP>> \o Q(RC0603) \o <<SP, LP, "property", SP>> \o Q(VALUE) \o <<SP>>
    \o Q(<<SP>>) \o AtTok \o EffectsTok \o <<RP, RP>>

\* a symbol whose Value is the manufacturer part with white space around
\* it, with one pin
BlockPadded ==
    SymbolBlock(RC0603,
                PropLine(VALUE, <<SP>> \o RC0603, "1") \o PropLine(FOOTPRINT, <<"Other:SOT23">>, "2"),
                SubSymbol(<<"RC0603_1_1">>, PinLine("power_in", "A")))

\* a top-level symbol that is named like the unit of BlockGenerated
BlockUnitName ==
    SymbolBlock(UNIT, PropLine(VALUE, <<"unit">>, "1"), <<>>)

SymFiles ==
    { SymLib(<<BlockGenerated>>),
      SymLib(<<BlockCap, BlockEdited>>),
      SymLib(<<BlockGenerated, BlockUnitName>>),
      SymLib(<<BlockBlank>>),
      Dos(SymLib(<<BlockCap, BlockPadded>>)),
      SymLib(<<>>) }

\* SymFiles and a file of two symbols where only a unit inside the second
\* symbol is named like UNIT
SymFilesWithUnit == SymFiles \cup {SymLib(<<BlockCap, BlockGenerated>>)}

SymbolIds == {RC0603, UNIT, <<"ZZ">>}

Prefixes == {PCM, <<"KI_">>}

Entry(name, val) == [name |-> name, val |-> val]

PropsFull ==
    << Entry(<<"Manufacturer">>, <<"YAGEO">>),
       Entry(<<"Manufacturer Part">>, RC0603),
       Entry(<<"Description">>, <<"Res", SP, "10k">>),
       Entry(<<"Resistance">>, <<"10k">>),
       Entry(<<"Capacitance">>, <<"100nF">>) >>

PropsNoPart ==
    << Entry(<<"Manufacturer">>, <<"YAGEO">>),
       Entry(<<"Resistance">>, <<"10k">>),
       Entry(<<"Capacitance">>, <<"100nF">>),
       Entry(<<"Inductance">>, <<"10uH">>),
       Entry(<<"Impedance">>, <<"120R">>) >>

PropsMfr ==
    << Entry(<<"MFR.Part">>, RC0603),
       Entry(<<"Inductance">>, <<"10uH">>),
       Entry(<<"Impedance @ Frequency">>, <<"120R@100MHz">>),
       Entry(<<"Impedance">>, <<"120R">>) >>

PropsOdd ==
    << Entry(VALUE, <<"XX">>),
       Entry(FOOTPRINT, <<"YY">>),
       Entry(<<"Description">>, <<"1/4", QT, SP, "pot">>),
       Entry(<<"Resistance">>, <<"4k7">>),
       Entry(<<"Impedance @ Frequency">>, <<>>),
       Entry(<<"Impedance">>, <<"120R">>),
       Entry(<<"Tolerance">>, None) >>

PropertySets == {PropsFull, PropsNoPart, PropsMfr, PropsOdd, <<>>}

Categories ==
    { None,
      <<"Resistor", "s">>,
      <<"Capacitor", "s">>,
      <<"Inductor", "s", "_", "Coil", "s">>,
      <<"Ferrite", "_", "Bead", "s">>,
      <<"Resistor", "_", "Capacitor", "_", "Network", "s">>,
      <<"Diode", "s">> }

-----------------------------------------------------------------------------
(* The editor as a state machine.  An editor is used the way import_part    *)
(* uses it: edit calls, then one save.                                      *)

MaxCalls == 2

\* no part selected, no import under way
NoPart == [lcsc |-> <<>>]
NoResult == [kind |-> "none"]
NoDialog == [pc |-> "none"]
NoScan == [pc |-> "none"]
ImportIdle ==
    /\ part = NoPart
    /\ imp = [pc |-> "idle", ran |-> <<>>, result |-> NoResult]
    /\ dlg = NoDialog
    /\ scan = NoScan

\* no project in use: no library table, no footprint file
ProjectIdle ==
    /\ ImportIdle
    /\ cwd = <<"/">>
    /\ mods = <<>>
    /\ fpe = [name |-> "none", n |-> 0]
    /\ disk = {}
    /\ sym_tbl = <<>>
    /\ fp_tbl = <<>>
    /\ tbl = [name |-> "none", n |-> 0]

Editor == [text |-> text, block_span |-> block_span, block |-> block]

NoRet == [raised |-> FALSE, value |-> 0]

\* no editor in use
EditorIdle ==
    /\ sym_file = <<>>
    /\ symbol_id = <<>>
    /\ text = <<>>
    /\ block_span = <<>>
    /\ block = <<>>
    /\ args = [prefix |-> <<>>, properties |-> <<>>, category |-> None]
    /\ op = [name |-> "none", strip_ids |-> FALSE]
    /\ ret = NoRet
    /\ calls = 0

\* no footprint file, no call of the footprint editor
FootprintsIdle ==
    /\ mods = <<>>
    /\ fpe = [name |-> "none", n |-> 0]

\* no library on disk, no library table
LibrariesIdle ==
    /\ disk = {}
    /\ sym_tbl = <<>>
    /\ fp_tbl = <<>>
    /\ tbl = [name |-> "none", n |-> 0]

\* A new editor on one of `files` for one of `ids`, whose client will pass
\* one of `prefixes`, of `propsets` and of `cats`.
EditorInit(files, ids, prefixes, propsets, cats) ==
    /\ sym_file \in files
    /\ symbol_id \in ids
    /\ text = <<>>
    /\ block_span = <<>>
    /\ block = <<>>
    /\ args \in [prefix : prefixes, properties : propsets, category : cats]
    /\ op = [name |-> "__init__", strip_ids |-> FALSE]
    /\ ret = NoRet
    /\ calls = 0
    /\ ProjectIdle

\* editor.ensure_footprint_prefix(args.prefix)
EnsureFootprintPrefix ==
    /\ op.name # "save"
    /\ calls < MaxCalls
    /\ LET ed == _ensure_loaded_block(Editor, sym_file, symbol_id)
           r == FootprintPrefixed(ed.block, args.prefix)
       IN  /\ text' = ed.text
           /\ block_span' = ed.block_span
           /\ block' = IF ed.ok THEN r.block ELSE ed.block
           /\ ret' = IF ed.ok THEN [raised |-> FALSE, value |-> r.updates]
                     ELSE [raised |-> TRUE, value |-> 0]
    /\ op' = [name |-> "ensure_footprint_prefix", strip_ids |-> FALSE]
    /\ calls' = calls + 1
    /\ UNCHANGED <<sym_file, symbol_id, args, cwd, tableVars, footprintVars, importVars>>

\* editor.apply_properties(args.properties, category=args.category)
ApplyProperties ==
    /\ op.name # "save"
    /\ calls < MaxCalls
    /\ LET ed == _ensure_loaded_block(Editor, sym_file, symbol_id)
           r == apply_properties(ed.block, args.properties, args.category, TRUE, TRUE, TRUE)
       IN  /\ text' = ed.text
           /\ block_span' = ed.block_span
           /\ block' = IF ed.ok THEN r.block ELSE ed.block
           /\ ret' = IF ed.ok THEN [raised |-> FALSE, value |-> r.changes]
                     ELSE [raised |-> TRUE, value |-> 0]
    /\ op' = [name |-> "apply_properties", strip_ids |-> FALSE]
    /\ calls' = calls + 1
    /\ UNCHANGED <<sym_file, symbol_id, args, cwd, tableVars, footprintVars, importVars>>

\* editor.save(strip_ids)
Save(strip_ids) ==
    /\ op.name # "save"
    /\ IF block_span = <<>>
       THEN UNCHANGED <<sym_file, text, block_span>>
       ELSE LET new_text == SavedText(Editor, strip_ids)
            IN  /\ sym_file' = IF new_text # text THEN new_text ELSE sym_file
                /\ text' = new_text
                /\ block_span' = <<block_span[1], block_span[1] + Len(block)>>
    /\ op' = [name |-> "save", strip_ids |-> strip_ids]
    /\ ret' = NoRet
    /\ UNCHANGED <<symbol_id, block, args, calls, cwd, tableVars, footprintVars, importVars>>

EditorNext ==
    \/ EnsureFootprintPrefix
    \/ ApplyProperties
    \/ \E strip_ids \in BOOLEAN : Save(strip_ids)

\* Every file and symbol id, with the arguments of a resistor import.
Spec ==
    /\ EditorInit(SymFilesWithUnit, SymbolIds, Prefixes, {PropsFull, PropsOdd},
                  {None, <<"Resistor", "s">>})
    /\ [][EditorNext]_vars

\* Every properties map and category, on the symbol named RC0603 of every file.
SpecApply ==
    /\ EditorInit(SymFiles, {RC0603}, {PCM}, PropertySets, Categories)
    /\ [][EditorNext]_vars

\* a resistor whose Footprint property has its (effects ...) before its (at ...)
BlockEffectsFirst ==
    SymbolBlock(RC0603,
                PropLine(VALUE, RC0603, "1")
                \o <<NL, SP, SP, LP, "property", SP>> \o Q(FOOTPRINT) \o <<SP>> \o Q(<<>>)
                \o EffectsTok \o AtTok \o <<RP>>,
                SubSymbol(UNIT, TwoPins))

\* a description with a parenthesis that is not closed
PropsParen ==
    << Entry(<<"Manufacturer">>, <<"YAGEO">>),
       Entry(<<"Description">>, <<"10k", SP, LP, "1%">>) >>

\* Properties that are inserted, with templates of every shape: (id)
\* first, (at) first, (effects) first, no Footprint property at all.
SpecInsert ==
    /\ EditorInit({SymLib(<<BlockGenerated>>), SymLib(<<BlockGenerated, BlockUnitName>>),
                   SymLib(<<BlockBlank>>), SymLib(<<BlockEffectsFirst>>)},
                  {RC0603}, {PCM}, {PropsFull, PropsMfr, PropsParen},
                  {None, <<"Resistor", "s">>})
    /\ [][EditorNext]_vars

-----------------------------------------------------------------------------
(* Properties of the editor *)

EditCalls == {"ensure_footprint_prefix", "apply_properties"}

\* s.endswith(p)
EndsWith(s, p) == MatchAt(s, Len(s) - Len(p) + 1, p)

\* The target block as it is when a call starts (after the lazy load)
PreBlock ==
    IF block_span # <<>> THEN block
    ELSE Slice(text', block_span'[1], block_span'[2])

\* a step that is a call of `name` which located the block and did not raise
Called(name) == op'.name = name /\ ~ret'.raised /\ block_span' # <<>>

\* a step that is save() with its default argument on a located block
SavedByDefault == op'.name = "save" /\ op'.strip_ids /\ block_span # <<>>

\* the position in file of what is at position p of read_text(file)
RawCut(file, p) ==
    CHOOSE r \in 1..(Len(file) + 1) :
        /\ ~(At(file, r - 1) = CR /\ At(file, r) = NL)
        /\ r - Cardinality({k \in 1..(r - 1) : file[k] = CR /\ At(file, k + 1) = NL}) = p

\* the file text before the target block, and after it
Before == Head_(sym_file, RawCut(sym_file, block_span[1]))
After == Tail_(sym_file, RawCut(sym_file, block_span[2]))

\* C1 as stated: after edit calls and save(), the file text before the start
\* of the target block and the file text after its end are character for
\* character what they were.
C1_FrameExact ==
    [][SavedByDefault => StartsWith(sym_file', Before) /\ EndsWith(sym_file', After)]_vars

\* C1 as amended: after edit calls and save(), either the file is not
\* written, or the file text before the start of the target block and the
\* file text after its end are what they were with every (id <digits>) token
\* removed and every line end made "\n", and nothing else is changed there.
C1_FrameModuloIds ==
    [][SavedByDefault =>
          \/ sym_file' = sym_file
          \/ /\ StartsWith(sym_file', StripIds(read_text(Before)))
             /\ EndsWith(sym_file', StripIds(read_text(After)))]_vars

\* C1's case: a saved file of two symbols whose second symbol was edited
C1_Witness ==
    /\ op.name = "save" /\ op.strip_ids
    /\ calls >= 1
    /\ sym_file = text
    /\ ~Contains(sym_file, <<LP, "id", SP>>)
    /\ Len(_find_blocks(sym_file)) = 2
    /\ block_span # <<>>
    /\ block_span[1] > _find_blocks(sym_file)[1][1]
    /\ _prop_exists(block, <<"Manufacturer Part">>)
    /\ _prop_exists(sym_file, <<"Manufacturer Part">>)

\* the top-level block at span is itself named id: it opens with (symbol "<id>"
OwnName(txt, span, id) ==
    LET j == SkipWS(txt, span[1] + 2)
    IN  /\ MatchAt(txt, span[1], <<LP, "symbol">>)
        /\ At(txt, span[1] + 2) \in WS
        /\ At(txt, j) = QT
        /\ MatchAt(txt, j + 1, id)
        /\ At(txt, j + 1 + Len(id)) = QT
        /\ j + 1 + Len(id) < span[2]

\* C2: when a top-level block of the file is named symbol_id, the span that
\* an edit call selects is the span of such a block.
C2_SelectsNamedBlock ==
    (op.name \in EditCalls /\ ~ret.raised /\ block_span # <<>>) =>
        LET blocks == _find_blocks(text)
            own == {n \in 1..Len(blocks) : OwnName(text, blocks[n], symbol_id)}
        IN  own # {} => \E n \in own : block_span = blocks[n]

\* the values of the non-empty Footprint properties of block b are all prefixed
AllPrefixed(b, prefix) ==
    \A i \in 1..Len(b) :
        LET vs == PropHeadAt(b, i, FOOTPRINT)
            close == IF vs = 0 THEN 0 ELSE CloseQuote(b, vs)
        IN  (vs # 0 /\ close - 1 > vs) => StartsWith(Slice(b, vs, close - 1), prefix)

ValueOf(b) == Or(_get_prop_value(b, VALUE), <<>>)

\* The attribute C7 names for a lower-cased category, or None
C7_Attribute(cat, properties) ==
    CASE Has(cat, "resistor") -> Get(properties, <<"Resistance">>)
      [] ~Has(cat, "resistor") /\ Has(cat, "capacitor") -> Get(properties, <<"Capacitance">>)
      [] ~Has(cat, "resistor") /\ ~Has(cat, "capacitor")
         /\ (Has(cat, "inductor") \/ Has(cat, "coil")) -> Get(properties, <<"Inductance">>)
      [] ~Has(cat, "resistor") /\ ~Has(cat, "capacitor")
         /\ ~Has(cat, "inductor") /\ ~Has(cat, "coil")
         /\ (Has(cat, "ferrite") \/ Has(cat, "bead")) ->
            IF Truthy(Get(properties, <<"Impedance @ Frequency">>))
            THEN Get(properties, <<"Impedance @ Frequency">>)
            ELSE Get(properties, <<"Impedance">>)
      [] OTHER -> None

\* C7: a Value that apply_properties changes becomes the attribute of the
\* first matching keyword of the category; with no category, or a category
\* with none of the keywords, Value is not changed.
C7_PrimaryByKeyword ==
    [][Called("apply_properties") =>
          LET want == IF Truthy(args.category)
                      THEN C7_Attribute(Lower(args.category), args.properties)
                      ELSE None
          IN  ValueOf(block') # ValueOf(PreBlock) =>
                 /\ Truthy(want)
                 /\ ValueOf(block') = ReplaceQuotes(want)]_vars

\* C7's case: a category with two keywords, where the first one decides
C7_Witness ==
    /\ op.name = "apply_properties" /\ ~ret.raised
    /\ Has(Lower(Or(args.category, <<>>)), "resistor")
    /\ Has(Lower(Or(args.category, <<>>)), "capacitor")
    /\ Truthy(Get(args.properties, <<"Capacitance">>))
    /\ ValueOf(Slice(text, block_span[1], block_span[2])) = RC0603
    /\ ValueOf(block) = <<"10k">>

\* the entry of the properties that C10 names, "" when there is none
PartEntry(properties, name) == Or(Get(properties, <<name>>), <<>>)

\* C10 as stated: apply_properties changes Value only if the current Value is
\* empty or equals the Manufacturer Part (or MFR.Part) entry.
C10_OnlyEmptyOrPart ==
    [][Called("apply_properties") =>
          (ValueOf(block') # ValueOf(PreBlock) =>
              \/ ValueOf(PreBlock) = <<>>
              \/ ValueOf(PreBlock) = PartEntry(args.properties, "Manufacturer Part")
              \/ ValueOf(PreBlock) = PartEntry(args.properties, "MFR.Part"))]_vars

\* C10 as amended: apply_properties changes Value only if the current Value
\* is blank (empty or white space only) or equals the Manufacturer Part (or
\* MFR.Part) entry once both are trimmed of surrounding white space.
C10_OnlyBlankOrPart ==
    [][Called("apply_properties") =>
          (ValueOf(block') # ValueOf(PreBlock) =>
              \/ Strip(ValueOf(PreBlock)) = <<>>
              \/ Strip(ValueOf(PreBlock)) = Strip(PartEntry(args.properties, "Manufacturer Part"))
              \/ Strip(ValueOf(PreBlock)) = Strip(PartEntry(args.properties, "MFR.Part")))]_vars

\* C10's case: a Value that is the MFR.Part entry has been overwritten
C10_Witness ==
    /\ op.name = "apply_properties" /\ ~ret.raised
    /\ calls = 1
    /\ ValueOf(Slice(text, block_span[1], block_span[2])) = RC0603
    /\ Get(args.properties, <<"MFR.Part">>) = RC0603
    /\ ValueOf(block) = <<"10uH">>

\* the names of the entries of `properties`
EntryNames(properties) == {properties[i].name : i \in 1..Len(properties)}

\* the value of property `name` in block b is blank (empty or white space)
BlankIn(b, name) == Strip(Or(_get_prop_value(b, name), <<>>)) = <<>>

\* every property among `names` that has a non-blank value in `pre` has the
\* same value in `post`
KeptNonBlank(pre, post, names) ==
    \A n \in names :
        ~BlankIn(pre, n) => _get_prop_value(post, n) = _get_prop_value(pre, n)

\* the properties that C11 watches in a call: those passed in, and those of
\* the input symbols, Value excepted
Watched == (EntryNames(args.properties) \cup {FOOTPRINT, <<"Description">>, <<"Manufacturer">>})
           \ {VALUE}

\* C11 as stated: with update_empty_only=True, apply_properties leaves every
\* property that exists with a non-blank value unchanged (Value excepted),
\* sets an existing property whose value is blank to the new value, and adds
\* a property that does not exist yet.
C11_EmptyOnly ==
    [][Called("apply_properties") =>
          /\ KeptNonBlank(PreBlock, block', Watched)
          /\ \A i \in 1..Len(args.properties) :
                LET name == args.properties[i].name
                    val == args.properties[i].val
                IN  (name # VALUE /\ val # None /\ BlankIn(PreBlock, name)) =>
                       /\ _prop_exists(block', name)
                       /\ _get_prop_value(block', name) = val]_vars

\* an entry that the loop of apply_properties passes over: a value None, the
\* name Footprint or Value, or a value that is, trimmed, the trimmed Value
\* of the block when the call starts
PassedOver(pre, name, val) ==
    \/ val = None
    \/ Strip(name) \in {FOOTPRINT, VALUE}
    \/ Strip(val) = Strip(ValueOf(pre))

\* C11 as amended: with update_empty_only=True, apply_properties leaves every
\* property that exists with a non-blank value unchanged (Value excepted);
\* for an entry that is not passed over, it sets an existing property whose
\* value is blank to the new value, and adds a property that does not exist
\* yet, each " of the new value written as '; an entry that is passed over
\* changes nothing: its property is neither set nor added.
C11_EmptyOnlyButPassedOver ==
    [][Called("apply_properties") =>
          /\ KeptNonBlank(PreBlock, block', Watched)
          /\ \A i \in 1..Len(args.properties) :
                LET name == args.properties[i].name
                    val == args.properties[i].val
                IN  IF PassedOver(PreBlock, name, val)
                    THEN name # VALUE =>
                            /\ _prop_exists(block', name) = _prop_exists(PreBlock, name)
                            /\ _get_prop_value(block', name) = _get_prop_value(PreBlock, name)
                    ELSE BlankIn(PreBlock, name) =>
                            /\ _prop_exists(block', name)
                            /\ _get_prop_value(block', name) = ReplaceQuotes(val)]_vars

\* C11's case: one call has kept the Description of the symbol, has set its
\* blank Manufacturer and has added the Manufacturer Part it did not have
C11_Witness ==
    /\ op.name = "apply_properties" /\ ~ret.raised
    /\ calls = 1
    /\ Get(args.properties, <<"Description">>) = <<"Res", SP, "10k">>
    /\ _get_prop_value(block, <<"Description">>) = <<"old">>
    /\ _get_prop_value(Slice(text, block_span[1], block_span[2]), <<"Manufacturer">>) = <<SP>>
    /\ _get_prop_value(block, <<"Manufacturer">>) = <<"YAGEO">>
    /\ ~_prop_exists(Slice(text, block_span[1], block_span[2]), <<"Manufacturer Part">>)
    /\ _get_prop_value(block, <<"Manufacturer Part">>) = RC0603

\* the texts of the (pin ...) blocks of b, in their order
PinTexts(b) ==
    LET Texts(pins) == [k \in 1..Len(pins) |-> Slice(b, pins[k][1], pins[k][2])]
    IN  Texts(_find_pin_blocks(b))

\* What C12 expects of a pin written (pin <type> <style> (at ...) ... (name
\* "<name>") ...): the header (pin input line, the name ~, and the text from
\* the position on kept, but for the name
C12_Pin(pin) ==
    LET Named(at, quote) ==
            PIN_INPUT_LINE \o Slice(pin, at - 1, quote + 1) \o <<"~">>
            \o Tail_(pin, CloseQuote(pin, quote + 1) - 1)
        Placed(at, name) == Named(at, Find(pin, <<QT>>, name))
    IN  Placed(Find(pin, <<LP, "at">>, 1), Find(pin, <<LP, "name">>, 1))

\* the category of the call is one in which C12 has the pins normalized
C12_Passive ==
    /\ Truthy(args.category)
    /\ \E k \in {"resistor", "capacitor", "inductor", "coil", "ferrite", "bead"} :
          Has(Lower(args.category), k)

\* C12: apply_properties with a category containing resistor, capacitor,
\* inductor, coil, ferrite or bead on a block of one or two pins gives each
\* pin the header (pin input line and the name ~ and keeps the rest of the
\* pin; with no pin, with more than two pins, or with another category, no
\* pin is changed.
C12_PinsNormalized ==
    [][Called("apply_properties") =>
          LET Normalized(pre, post) ==
                  IF C12_Passive /\ Len(pre) \in 1..2
                  THEN post = [k \in 1..Len(pre) |-> C12_Pin(pre[k])]
                  ELSE post = pre
          IN  Normalized(PinTexts(PreBlock), PinTexts(block'))]_vars

\* C12's case: the two passive pins of a resistor have been normalized, the
\* numbers 1 and 2 kept
C12_Witness ==
    /\ op.name = "apply_properties" /\ ~ret.raised
    /\ Has(Lower(Or(args.category, <<>>)), "resistor")
    /\ LET Normalized(pre, post) ==
               /\ Len(post) = 2
               /\ \A k \in 1..2 :
                     /\ Contains(pre[k], <<"passive">>)
                     /\ StartsWith(post[k], PIN_INPUT_LINE \o <<SP, LP, "at">>)
                     /\ Contains(post[k], <<LP, "name", SP, QT, "~", QT, RP>>)
               /\ Contains(post[1], <<LP, "number", SP, QT, "1", QT, RP>>)
               /\ Contains(post[2], <<LP, "number", SP, QT, "2", QT, RP>>)
       IN  Normalized(PinTexts(Slice(text, block_span[1], block_span[2])), PinTexts(block))

\* the values of the Footprint properties of block b, in the order of the text
FootprintValues(b) ==
    LET Value(vs) == Slice(b, vs, CloseQuote(b, vs) - 1)
        Nth(heads, k) == CHOOSE i \in heads : Cardinality({j \in heads : j < i}) = k - 1
        Values(heads) ==
            [k \in 1..Cardinality(heads) |-> Value(PropHeadAt(b, Nth(heads, k), FOOTPRINT))]
    IN  Values({i \in 1..Len(b) : PropHeadAt(b, i, FOOTPRINT) # 0})

\* the Footprint value C13 expects for value v
C13_Value(v, prefix) ==
    IF StartsWith(v, prefix) THEN v
    ELSE IF StartsWith(v, <<"LCSC_">>) THEN prefix \o v
    ELSE v

\* C13: ensure_footprint_prefix leaves a Footprint value that starts with the
\* prefix as it is, puts the prefix before a value whose library name starts
\* with "LCSC_", and leaves a value of any other library without the prefix.
C13_PrefixOnlyLCSC ==
    [][Called("ensure_footprint_prefix") =>
          LET Ensured(pre, post) ==
                  post = [k \in 1..Len(pre) |-> C13_Value(pre[k], args.prefix)]
          IN  Ensured(FootprintValues(PreBlock), FootprintValues(block'))]_vars

\* the top-level blocks of txt that are themselves named id
NamedBlocks(txt, id) ==
    LET Own(blocks) == {n \in 1..Len(blocks) : OwnName(txt, blocks[n], id)}
    IN  Own(_find_blocks(txt))

\* C14: when no top-level block is named symbol_id, an edit call selects the
\* only block of a file with exactly one top-level block; in a file with no
\* block or with several, every edit call raises ValueError and applies
\* nothing, and a save() that follows leaves the file as it was.
C14_FallbackOrRaise ==
    [][/\ (op'.name \in EditCalls /\ NamedBlocks(text', symbol_id) = {}) =>
             LET Settled(blocks) ==
                     IF Len(blocks) = 1
                     THEN ~ret'.raised /\ block_span' = blocks[1]
                     ELSE ret'.raised /\ block_span' = <<>> /\ block' = <<>>
             IN  Settled(_find_blocks(text'))
       /\ (op'.name = "save" /\ ret.raised) => sym_file' = sym_file]_vars

-----------------------------------------------------------------------------
(* pathlib on POSIX.  A path str has each separator ("/" or "\") as a       *)
(* lexeme of its own; a file name is its stem followed by its suffix, and   *)
(* "${", "}" and a drive ("C:") are lexemes too.  A parsed Path is the      *)
(* sequence of its components below the root, each a sequence of lexemes.   *)

SLASH == "/"
BACKSLASH == "\\"
DOT == <<".">>
DOTDOT == <<"..">>
KIPRJMOD == <<"${", "KIPRJMOD", "}", SLASH>>      \* "${KIPRJMOD}/"
Suffixes == {".kicad_sym", ".pretty", ".kicad_mod", ".mod", ".3dshapes", ".step", ".wrl"}

\* s.replace("\\", "/")
Posix(s) == [i \in 1..Len(s) |-> IF s[i] = BACKSLASH THEN SLASH ELSE s[i]]

\* the components of Path(s): s split at "/", without "" and "."
RECURSIVE SplitParts(_, _)
SplitParts(s, i) ==
    IF i > Len(s) THEN <<>>
    ELSE LET seps == {k \in i..Len(s) : s[k] = SLASH}
             j == IF seps = {} THEN Len(s) + 1 ELSE Min(seps)
             piece == SubSeq(s, i, j - 1)
         IN  (IF piece = <<>> \/ piece = DOT THEN <<>> ELSE <<piece>>) \o SplitParts(s, j + 1)

Parts(s) == SplitParts(s, 1)

\* os.path.realpath on components: ".." steps up, and stays at the root
RECURSIVE Collapse(_, _)
Collapse(done, rest) ==
    IF rest = <<>> THEN done
    ELSE IF rest[1] = DOTDOT
         THEN Collapse(IF done = <<>> THEN <<>> ELSE SubSeq(done, 1, Len(done) - 1), Tail(rest))
         ELSE Collapse(Append(done, rest[1]), Tail(rest))

\* Path(s).resolve() of a path with no symbolic link on it: a path that
\* does not start with "/" is taken from the working directory `wd`
Resolve(s, wd) ==
    IF At(s, 1) = SLASH THEN Collapse(<<>>, Parts(s))
    ELSE Collapse(<<>>, Parts(wd) \o Parts(s))

\* path.relative_to(base) of two resolved paths; None where it raises ValueError
relative_to(path, base) ==
    IF Len(base) <= Len(path) /\ SubSeq(path, 1, Len(base)) = base
    THEN SubSeq(path, Len(base) + 1, Len(path))
    ELSE None

RECURSIVE JoinParts(_)
JoinParts(parts) ==
    IF parts = <<>> THEN <<>>
    ELSE IF Len(parts) = 1 THEN parts[1]
    ELSE parts[1] \o <<SLASH>> \o JoinParts(Tail(parts))

\* as_posix() of a relative path, and of a resolved absolute one
RelPosix(parts) == IF parts = <<>> THEN DOT ELSE JoinParts(parts)
AbsPosix(parts) == <<SLASH>> \o JoinParts(parts)

\* Path(s).stem
Stem(s) ==
    LET parts == Parts(s)
        name == IF parts = <<>> THEN <<>> ELSE parts[Len(parts)]
    IN  IF Len(name) > 1 /\ name[Len(name)] \in Suffixes
        THEN SubSeq(name, 1, Len(name) - 1)
        ELSE name

\* the name of s matches the pattern "*<suffix>"
HasSuffix(s, suffix) ==
    LET parts == Parts(s)
    IN  parts # <<>> /\ Len(parts[Len(parts)]) > 1 /\ parts[Len(parts)][Len(parts[Len(parts)])] = suffix

\* s lies below directory d, as an item that d.rglob() yields does
Below(s, d) == Len(s) > Len(d) + 1 /\ SubSeq(s, 1, Len(d)) = d /\ s[Len(d) + 1] = SLASH

-----------------------------------------------------------------------------
(* LibTablesManager *)

PROJECT_DIR == <<SLASH, "proj">>

\* _init_table(kind)
_init_table(kind) ==
    <<LP, IF kind = "sym" THEN "sym_lib_table" ELSE "fp_lib_table", CR, NL,
      SP, SP, LP, "version", SP, "7", RP, RP, CR, NL>>

\* f"(name \"{name}\")" and f"(uri \"{uri}\")"
NameForm(name) == <<LP, "name", SP, QT>> \o name \o <<QT, RP>>
UriForm(uri) == <<LP, "uri", SP, QT>> \o uri \o <<QT, RP>>

\* the `entry` line of _ensure_entry
LibEntry(name, uri) ==
    <<SP, SP, LP, "lib", SP>> \o NameForm(name)
    \o <<LP, "type", SP, QT, "KiCad", QT, RP>> \o UriForm(uri)
    \o <<LP, "options", SP, QT, QT, RP, LP, "descr", SP, QT, QT, RP, RP, NL>>

\* _ensure_entry that looks for the name only
_ensure_entry_NameOnly(file, tbl_kind, name, uri) ==
    LET content == IF file = <<>> THEN _init_table(tbl_kind) ELSE read_text(file)
    IN  IF Contains(content, NameForm(name))
        THEN [ret |-> FALSE, file |-> file]
        ELSE LET stripped0 == RStrip(content)
                 stripped == IF RFind(stripped0, <<RP>>) = 0
                             THEN RStrip(_init_table(tbl_kind))
                             ELSE stripped0
                 idx == RFind(stripped, <<RP>>)
             IN  [ret |-> TRUE,
                  file |-> Head_(stripped, idx) \o LibEntry(name, uri)
                           \o Tail_(stripped, idx) \o <<NL>>]

\* _ensure_entry that puts the entry after the text of the table
_ensure_entry_AtEnd(file, tbl_kind, name, uri) ==
    LET content == IF file = <<>> THEN _init_table(tbl_kind) ELSE read_text(file)
    IN  IF Contains(content, UriForm(uri)) \/ Contains(content, NameForm(name))
        THEN [ret |-> FALSE, file |-> file]
        ELSE [ret |-> TRUE, file |-> RStrip(content) \o <<NL>> \o LibEntry(name, uri)]

\* _ensure_entry on a table file holding `file` ("" when _read finds none):
\* what it returns, and what the file holds afterwards
_ensure_entry(file, tbl_kind, name, uri) ==
    LET content == IF file = <<>> THEN _init_table(tbl_kind) ELSE read_text(file)
    IN  IF Contains(content, UriForm(uri)) \/ Contains(content, NameForm(name))
        THEN [ret |-> FALSE, file |-> file]
        ELSE LET stripped0 == RStrip(content)
                 stripped == IF RFind(stripped0, <<RP>>) = 0
                             THEN RStrip(_init_table(tbl_kind))
                             ELSE stripped0
                 idx == RFind(stripped, <<RP>>)
             IN  [ret |-> TRUE,
                  file |-> Head_(stripped, idx) \o LibEntry(name, uri)
                           \o Tail_(stripped, idx) \o <<NL>>]

\* f"{base}_{i}"
Numbered(base, i) == base \o <<"_", ToString(i)>>

\* the while loop of _unique_name: the first i from `i` on with no
\* (name "<base>_<i>") in existing
RECURSIVE FirstFree(_, _, _)
FirstFree(base, existing, i) ==
    IF Contains(existing, NameForm(Numbered(base, i)))
    THEN FirstFree(base, existing, i + 1)
    ELSE i

\* _unique_name that starts counting at 2
_unique_name_FromTwo(base, existing) ==
    IF existing # <<>> /\ Contains(existing, NameForm(base))
    THEN Numbered(base, FirstFree(base, existing, 2))
    ELSE base

_unique_name(base, existing) ==
    IF existing # <<>> /\ Contains(existing, NameForm(base))
    THEN Numbered(base, FirstFree(base, existing, 1))
    ELSE base

\* the uri that ensure_project_lib_tables computes for the library at `path`
LibUri(path, use_project_relative, wd) ==
    LET resolved == Resolve(path, wd)
        rel == relative_to(resolved, Resolve(PROJECT_DIR, wd))
    IN  IF use_project_relative
        THEN KIPRJMOD \o (IF rel # None THEN RelPosix(rel) ELSE AbsPosix(resolved))
        ELSE AbsPosix(resolved)

\* One of the two for loops of ensure_project_lib_tables, from the k-th of
\* `paths` on.  st = [file, content, changes]: the table file on disk, the
\* local sym_content / fp_content, and the local `changes`.
RECURSIVE AddLibraries(_, _, _, _, _, _)
AddLibraries(st, kind, paths, k, use_project_relative, wd) ==
    IF k > Len(paths) THEN st
    ELSE LET uri == LibUri(paths[k], use_project_relative, wd)
             name == _unique_name(Stem(paths[k]), st.content)
             r == _ensure_entry(st.file, kind, name, uri)
         IN  AddLibraries(IF r.ret
                          THEN [file |-> r.file, content |-> read_text(r.file),
                                changes |-> st.changes + 1]
                          ELSE st,
                          kind, paths, k + 1, use_project_relative, wd)

\* sorted(lib_dir.rglob("*<suffix>")): the paths of `on_disk` below out_dir,
\* `universe` being every path that can be there, in the order sorted() gives
FoundIn(universe, on_disk, out_dir, suffix) ==
    LET hit(i) == /\ universe[i] \in on_disk
                  /\ Below(universe[i], out_dir)
                  /\ HasSuffix(universe[i], suffix)
        F[i \in 0..Len(universe)] ==
            IF i = 0 THEN <<>>
            ELSE IF hit(i) THEN Append(F[i - 1], universe[i]) ELSE F[i - 1]
    IN  F[Len(universe)]

\* ensure_project_lib_tables on the two table files, given what the two
\* rglob calls found: the table files afterwards and `changes`
ensure_project_lib_tables(sym_table, fp_table, sym_files, pretty_dirs, use_project_relative, wd) ==
    LET Done(sym, fp) == [sym_tbl |-> sym.file, fp_tbl |-> fp.file, changes |-> fp.changes]
        Footprints(sym) ==
            Done(sym, AddLibraries([file |-> fp_table, content |-> read_text(fp_table),
                                    changes |-> sym.changes],
                                   "fp", pretty_dirs, 1, use_project_relative, wd))
    IN  Footprints(AddLibraries([file |-> sym_table, content |-> read_text(sym_table),
                                 changes |-> 0],
                                "sym", sym_files, 1, use_project_relative, wd))

-----------------------------------------------------------------------------
(* Inputs: generated libraries and project library tables *)

LIB_DIR == PROJECT_DIR \o <<SLASH, "lib">>                        \* project_lib_dir "lib"
EXT_DIR == PROJECT_DIR \o <<SLASH, "..", SLASH, "ext", SLASH, "lib">>   \* "../ext/lib"

\* The libraries that imports can generate, in the order sorted() gives Paths.
\* Two of the symbol libraries have the same stem.
LibFiles ==
    << EXT_DIR \o <<SLASH, "RC", ".kicad_sym">>,
       LIB_DIR \o <<SLASH, "RC", ".kicad_sym">>,
       LIB_DIR \o <<SLASH, "RC", ".pretty">>,
       LIB_DIR \o <<SLASH, "old", SLASH, "RC", ".kicad_sym">> >>

OutDirs == {LIB_DIR, EXT_DIR}

\* a table as KiCad writes it, holding `entries`
TableOf(kind, entries) ==
    <<LP, IF kind = "sym" THEN "sym_lib_table" ELSE "fp_lib_table", NL,
      SP, SP, LP, "version", SP, "7", RP, NL>> \o entries \o <<RP, NL>>

OTHER_URI == KIPRJMOD \o <<"mylibs", SLASH, "RC", ".kicad_sym">>
OTHER_URI2 == KIPRJMOD \o <<"mylibs", SLASH, "RC2", ".kicad_sym">>
LIB_URI == KIPRJMOD \o <<"lib", SLASH, "RC", ".kicad_sym">>

FP_TABLE == TableOf("fp", LibEntry(<<"RC">>, KIPRJMOD \o <<"mylibs", SLASH, "RC", ".pretty">>))

\* The project's <<sym-lib-table, fp-lib-table>> before the first import:
\* none, the empty tables, tables where the stem RC is taken by another
\* library, a table that holds one of the generated libraries under another
\* name, and a table file with nothing but white space in it.
ProjectTables ==
    { << <<>>, <<>> >>,
      << _init_table("sym"), _init_table("fp") >>,
      << TableOf("sym", LibEntry(<<"RC">>, OTHER_URI)), <<>> >>,
      << TableOf("sym", LibEntry(<<"RC">>, OTHER_URI) \o LibEntry(Numbered(<<"RC">>, 2), OTHER_URI2)),
         FP_TABLE >>,
      << TableOf("sym", LibEntry(<<"Resistors">>, LIB_URI)), FP_TABLE >>,
      << <<SP, NL>>, <<>> >> }

-----------------------------------------------------------------------------
(* The project's library tables as a state machine: imports generate        *)
(* libraries, and ensure_project_lib_tables registers what it finds.        *)

MaxTableCalls == 2

\* sorted(lib_dir.rglob("*<suffix>")): the paths on disk below out_dir
Found(out_dir, suffix) == FoundIn(LibFiles, disk, out_dir, suffix)

TablesInit ==
    /\ cwd = PROJECT_DIR
    /\ disk = {}
    /\ \E tables \in ProjectTables : sym_tbl = tables[1] /\ fp_tbl = tables[2]
    /\ tbl = [name |-> "none", n |-> 0]
    /\ EditorIdle /\ FootprintsIdle /\ ImportIdle

\* an import writes library i
Generate(i) ==
    /\ LibFiles[i] \notin disk
    /\ disk' = disk \cup {LibFiles[i]}
    /\ tbl' = [name |-> "generate", n |-> tbl.n]
    /\ UNCHANGED <<cwd, sym_tbl, fp_tbl, editorVars, footprintVars, importVars>>

\* the call before this one was the same call, with the same libraries on disk
SameCall(out_dir, use_project_relative) ==
    /\ tbl.name = "ensure_project_lib_tables"
    /\ tbl.out_dir = out_dir
    /\ tbl.use_project_relative = use_project_relative

\* LibTablesManager(PROJECT_DIR).ensure_project_lib_tables(out_dir, use_project_relative)
EnsureProjectLibTables(out_dir, use_project_relative) ==
    /\ tbl.n < MaxTableCalls
    /\ LET Registered(sym_files, pretty_dirs, r) ==
               /\ sym_tbl' = r.sym_tbl
               /\ fp_tbl' = r.fp_tbl
               /\ tbl' = [name |-> "ensure_project_lib_tables", n |-> tbl.n + 1,
                          out_dir |-> out_dir, use_project_relative |-> use_project_relative,
                          sym_files |-> sym_files, pretty_dirs |-> pretty_dirs,
                          lib_base |-> out_dir, changes |-> r.changes,
                          again |-> SameCall(out_dir, use_project_relative)]
           Globbed(sym_files, pretty_dirs) ==
               Registered(sym_files, pretty_dirs,
                          ensure_project_lib_tables(sym_tbl, fp_tbl, sym_files, pretty_dirs,
                                                    use_project_relative, cwd))
       IN  Globbed(Found(out_dir, ".kicad_sym"), Found(out_dir, ".pretty"))
    /\ UNCHANGED <<cwd, disk, editorVars, footprintVars, importVars>>

TablesNext ==
    \/ \E i \in 1..Len(LibFiles) : Generate(i)
    \/ \E out_dir \in OutDirs, use_project_relative \in BOOLEAN :
          EnsureProjectLibTables(out_dir, use_project_relative)

SpecTables ==
    /\ TablesInit
    /\ [][TablesNext]_vars

-----------------------------------------------------------------------------
(* _ensure_entry as a function of any table text, name and uri *)

MaxEntryCalls == 2

\* Table files: none, the empty table the manager writes ("\r\n" line ends),
\* tables as KiCad writes them, a table followed by blank lines, a table
\* whose last parenthesis is missing, and a file of white space.
EntryTables ==
    { <<>>,
      _init_table("sym"),
      TableOf("sym", <<>>),
      TableOf("sym", LibEntry(<<"RC">>, OTHER_URI)),
      TableOf("sym", LibEntry(<<"RC">>, OTHER_URI)) \o <<SP, NL, NL>>,
      <<LP, "sym_lib_table", NL, SP, SP, LP, "version", SP, "7", RP, NL>>,
      <<SP, NL>> }

LibNames == {<<"RC">>, <<"Resistors">>}
LibUris == {OTHER_URI, LIB_URI}

EntryInit ==
    /\ cwd = PROJECT_DIR
    /\ disk = {}
    /\ sym_tbl \in EntryTables
    /\ fp_tbl \in {<<>>, FP_TABLE}
    /\ tbl = [name |-> "none", n |-> 0]
    /\ EditorIdle /\ FootprintsIdle /\ ImportIdle

\* LibTablesManager(PROJECT_DIR)._ensure_entry(<table of tbl_kind>, tbl_kind, name, uri)
EnsureEntry(tbl_kind, name, uri) ==
    /\ tbl.n < MaxEntryCalls
    /\ LET Written(r) ==
               /\ sym_tbl' = IF tbl_kind = "sym" THEN r.file ELSE sym_tbl
               /\ fp_tbl' = IF tbl_kind = "sym" THEN fp_tbl ELSE r.file
               /\ tbl' = [name |-> "_ensure_entry", n |-> tbl.n + 1, tbl_kind |-> tbl_kind,
                          entry |-> LibEntry(name, uri), ret |-> r.ret]
       IN  Written(_ensure_entry(IF tbl_kind = "sym" THEN sym_tbl ELSE fp_tbl,
                                 tbl_kind, name, uri))
    /\ UNCHANGED <<cwd, disk, editorVars, footprintVars, importVars>>

SpecEntry ==
    /\ EntryInit
    /\ [][\E tbl_kind \in {"sym", "fp"}, name \in LibNames, uri \in LibUris :
             EnsureEntry(tbl_kind, name, uri)]_vars

-----------------------------------------------------------------------------
(* Properties of the library tables *)

\* where the (name "...") or (uri "...") fields of table t start
FieldsOf(t, word) == {i \in 1..Len(t) : MatchAt(t, i, <<LP, word, SP, QT>>)}

\* the quoted text of the field that starts at i
FieldAt(t, i) == Slice(t, i + 4, CloseQuote(t, i + 4) - 1)

Names(t) == {FieldAt(t, i) : i \in FieldsOf(t, "name")}
Uris(t) == {FieldAt(t, i) : i \in FieldsOf(t, "uri")}

\* no two entries of t have the same <word>
NoDuplicate(t, word) ==
    \A i, j \in FieldsOf(t, word) : FieldAt(t, i) = FieldAt(t, j) => i = j

\* the uri of the entry whose name field starts at i
UriOf(t, i) == FieldAt(t, Min({j \in FieldsOf(t, "uri") : j > i}))

\* a step that is a call of ensure_project_lib_tables
Ensured == tbl'.name = "ensure_project_lib_tables" /\ tbl'.n = tbl.n + 1

\* C3: a call of ensure_project_lib_tables that follows the same call, with
\* the same libraries on disk, adds no entry and leaves both tables as they are.
C3_SecondRunIdentical ==
    [][(Ensured /\ tbl'.again) =>
          /\ sym_tbl' = sym_tbl
          /\ fp_tbl' = fp_tbl
          /\ tbl'.changes = 0]_vars

\* C3's case: a second run after a run that added a symbol library under a
\* numbered name and a footprint library
C3_Witness ==
    /\ tbl.name = "ensure_project_lib_tables"
    /\ tbl.again
    /\ tbl.changes = 0
    /\ Contains(sym_tbl, LibEntry(Numbered(<<"RC">>, 1), LIB_URI))
    /\ Contains(fp_tbl, UriForm(KIPRJMOD \o <<"lib", SLASH, "RC", ".pretty">>))

\* name is base, or base_i with base and every base_k, k < i, a name of t
FirstFreeName(name, base, t) ==
    \/ name = base
    \/ \E i \in 1..Cardinality(Names(t)) :
          /\ name = Numbered(base, i)
          /\ base \in Names(t)
          /\ \A k \in 1..(i - 1) : Numbered(base, k) \in Names(t)

\* every library of `paths` whose uri table t did not hold has an entry in
\* t2, under its stem or the first free numbered name
AddedUnderFirstFree(t, t2, paths, use_project_relative) ==
    \A k \in 1..Len(paths) :
        LET uri == LibUri(paths[k], use_project_relative, cwd)
        IN  uri \notin Uris(t) =>
               \E i \in FieldsOf(t2, "name") :
                  /\ UriOf(t2, i) = uri
                  /\ FirstFreeName(FieldAt(t2, i), Stem(paths[k]), t2)

\* C4: no two entries of a table have the same name and no two the same uri,
\* and a call adds each library that is not in the table yet under its stem,
\* or under the first free name <stem>_1, <stem>_2, ... when the stem is taken.
C4_NoDuplicates ==
    /\ [](/\ NoDuplicate(sym_tbl, "name") /\ NoDuplicate(sym_tbl, "uri")
          /\ NoDuplicate(fp_tbl, "name") /\ NoDuplicate(fp_tbl, "uri"))
    /\ [][Ensured =>
            /\ AddedUnderFirstFree(sym_tbl, sym_tbl', tbl'.sym_files, tbl'.use_project_relative)
            /\ AddedUnderFirstFree(fp_tbl, fp_tbl', tbl'.pretty_dirs, tbl'.use_project_relative)]_vars

\* C4's case: a table that held RC and RC_2, to which a library of stem RC
\* has been added as RC_1 and another one as RC_3
C4_Witness ==
    /\ tbl.name = "ensure_project_lib_tables"
    /\ Names(sym_tbl) = {<<"RC">>, Numbered(<<"RC">>, 1), Numbered(<<"RC">>, 2), Numbered(<<"RC">>, 3)}
    /\ Contains(fp_tbl, NameForm(Numbered(<<"RC">>, 1)))

-----------------------------------------------------------------------------
(* FootprintEditor *)

Drives == {"C:", "D:"}

\* _is_abs that takes every path for an absolute one
_is_abs_Any(p) == TRUE

\* _is_abs(p)
_is_abs(p) ==
    \/ At(p, 1) = SLASH
    \/ At(p, 1) \in Drives /\ At(p, 2) \in {SLASH, BACKSLASH}
    \/ At(p, 1) = BACKSLASH /\ At(p, 2) = BACKSLASH

\* \(model\s+"([^"]+)"  matched at position i of t: [vs, ve] is the span of
\* group(1) and `end` the end of the match; end = 0 when there is no match at i
ModelMatchAt(t, i) ==
    IF At(t, i) = LP /\ At(t, i + 1) = "model" /\ At(t, i + 2) \in WS
    THEN LET j == SkipWS(t, i + 2)
             close == IF At(t, j) = QT THEN CloseQuote(t, j + 1) ELSE 0
         IN  IF close # 0 /\ close - 1 > j + 1
             THEN [vs |-> j + 1, ve |-> close - 1, end |-> close]
             ELSE [vs |-> 0, ve |-> 0, end |-> 0]
    ELSE [vs |-> 0, ve |-> 0, end |-> 0]

\* repl(m) of relativize_3d_model_paths for the match g0 = m.group(0) with
\* original = m.group(1): the replacement, and whether it counts as a change
Relativized(g0, original, project_dir, wd) ==
    LET norm == Posix(original)
        rel == relative_to(Resolve(norm, wd), project_dir)
        newp == KIPRJMOD \o RelPosix(rel)
        at == Find(g0, Q(original), 1)
    IN  IF Contains(original, <<"${">>) THEN [out |-> g0, n |-> 0]
        ELSE IF ~_is_abs(norm) THEN [out |-> g0, n |-> 0]
        ELSE IF rel = None THEN [out |-> g0, n |-> 0]
        ELSE IF newp # original
             THEN [out |-> Head_(g0, at) \o Q(newp) \o Tail_(g0, at + Len(Q(original))), n |-> 1]
             ELSE [out |-> g0, n |-> 0]

\* pattern.sub(repl, text) from position i on: the new text from i on and
\* the value added to changes_here
RECURSIVE ModelSubFrom(_, _, _, _)
ModelSubFrom(t, i, project_dir, wd) ==
    LET hits == {k \in i..Len(t) : t[k] = LP /\ ModelMatchAt(t, k).end # 0}
    IN  IF hits = {} THEN [out |-> Tail_(t, i), n |-> 0]
        ELSE LET k == Min(hits)
                 m == ModelMatchAt(t, k)
                 r == Relativized(Slice(t, k, m.end), Slice(t, m.vs, m.ve), project_dir, wd)
                 rest == ModelSubFrom(t, m.end, project_dir, wd)
             IN  [out |-> Slice(t, i, k) \o r.out \o rest.out, n |-> r.n + rest.n]

\* list(root.rglob("*.kicad_mod")) + list(root.rglob("*.mod")): the indices
\* into `files` of the footprint files below root
FootprintFiles(files, root) ==
    LET found(suffix) == {k \in 1..Len(files) :
                             Below(files[k].path, root) /\ HasSuffix(files[k].path, suffix)}
    IN  found(".kicad_mod") \cup found(".mod")

\* relativize_3d_model_paths(search_root) of FootprintEditor(project): the
\* files afterwards, the number returned, and the number of files written
relativize_3d_model_paths(files, project, search_root, wd) ==
    LET project_dir == Resolve(project, wd)
        todo == FootprintFiles(files, search_root)
        sub == [k \in todo |-> ModelSubFrom(read_text(files[k].text), 1, project_dir, wd)]
        write == {k \in todo : sub[k].n > 0 /\ sub[k].out # read_text(files[k].text)}
        Total[k \in 0..Len(files)] ==
            IF k = 0 THEN 0 ELSE Total[k - 1] + (IF k \in write THEN sub[k].n ELSE 0)
    IN  [files |-> [k \in 1..Len(files) |->
                       IF k \in write THEN [path |-> files[k].path, text |-> sub[k].out]
                       ELSE files[k]],
         total |-> Total[Len(files)],
         written |-> Cardinality(write)]

-----------------------------------------------------------------------------
(* Inputs: footprint files in the dialect easyeda2kicad writes *)

\* a (model ...) form of a footprint, `gap` being the white space after "model"
ModelForm(gap, path) ==
    <<SP, SP, LP, "model">> \o gap \o Q(path)
    \o <<NL, SP, SP, SP, SP, LP, "offset", SP, LP, "xyz", SP, "0", SP, "0", SP, "0", RP, RP,
         NL, SP, SP, RP, NL>>

FootprintText(name, models) ==
    <<LP, "footprint", SP, QT, name, QT, SP, LP, "layer", SP, QT, "F.Cu", QT, RP, NL>>
    \o models \o <<RP, NL>>

SHAPES == <<"RC", ".3dshapes", SLASH, "R0603", ".wrl">>

\* absolute, inside the project
PATH_IN == LIB_DIR \o <<SLASH>> \o SHAPES
\* the same with backslashes
PATH_BACKSLASH == <<BACKSLASH, "proj", BACKSLASH, "lib", BACKSLASH, "R0603", ".step">>
\* absolute, outside the project
PATH_OUT == <<SLASH, "ext", SLASH>> \o SHAPES
\* absolute, leaving the project by ".."
PATH_LEAVES == LIB_DIR \o <<SLASH, "..", SLASH, "..", SLASH, "ext", SLASH, "R0603", ".step">>
\* absolute, entering the project by ".."
PATH_ENTERS == <<SLASH, "ext", SLASH, "..", SLASH, "proj", SLASH, "R0603", ".step">>
\* with a variable
PATH_VAR == <<"${", "KICAD9_3DMODEL_DIR", "}", SLASH>> \o SHAPES
\* with a variable after an absolute start
PATH_ABS_VAR == LIB_DIR \o <<SLASH, "${", "NAME", "}", ".step">>
\* relative
PATH_REL == <<"lib", SLASH>> \o SHAPES
\* with a drive
PATH_DRIVE == <<"C:", BACKSLASH, "proj", BACKSLASH, "R0603", ".step">>
\* the project directory itself
PATH_PROJECT == PROJECT_DIR \o <<SLASH>>

PRETTY == LIB_DIR \o <<SLASH, "RC", ".pretty">>

File(path, t) == [path |-> path, text |-> t]

\* the files of a library directory
Dir(a, b, c, d) ==
    << File(PRETTY \o <<SLASH, "R0603", ".kicad_mod">>, a),
       File(PRETTY \o <<SLASH, "R0402", ".mod">>, b),
       File(LIB_DIR \o <<SLASH, "CL", ".pretty", SLASH, "C0603", ".kicad_mod">>, c),
       File(PRETTY \o <<SLASH, "R0603", ".kicad_mod", ".bak">>, d) >>

One(path) == FootprintText("R0603", ModelForm(<<SP>>, path))
Two(p1, p2) == FootprintText("R0603", ModelForm(<<SP>>, p1) \o ModelForm(<<NL, SP, SP, SP>>, p2))

LibraryDirs ==
    { Dir(One(PATH_IN), One(PATH_OUT), Two(PATH_VAR, PATH_IN), One(PATH_IN)),
      Dir(Two(PATH_BACKSLASH, PATH_REL), One(PATH_LEAVES), One(PATH_ENTERS), One(PATH_OUT)),
      Dir(Two(PATH_DRIVE, PATH_ABS_VAR), FootprintText("R0402", <<>>), Dos(One(<<>>)), One(PATH_REL)),
      Dir(Dos(Two(PATH_IN, PATH_IN)), One(PATH_PROJECT), Two(PATH_OUT, PATH_ENTERS), One(<<>>)),
      Dir(Two(PATH_REL, PATH_DRIVE), One(PATH_VAR), One(PATH_BACKSLASH), One(PATH_IN)) }

\* what an import writes into a footprint file
GeneratedFootprints == {One(PATH_IN), Two(PATH_OUT, PATH_BACKSLASH)}

SearchRoots == {LIB_DIR, PRETTY}

WorkingDirs == {PROJECT_DIR, <<SLASH, "home">>}

-----------------------------------------------------------------------------
(* The footprints of a library directory as a state machine: imports write  *)
(* footprint files, and relativize_3d_model_paths goes over them.           *)

MaxFootprintCalls == 3

FootprintsInit ==
    /\ cwd \in WorkingDirs
    /\ mods \in LibraryDirs
    /\ fpe = [name |-> "none", n |-> 0]
    /\ EditorIdle /\ LibrariesIdle /\ ImportIdle

\* an import (over)writes footprint file k
WriteFootprint(k, t) ==
    /\ fpe.n < MaxFootprintCalls
    /\ HasSuffix(mods[k].path, ".kicad_mod")
    /\ mods[k].text # t
    /\ mods' = [mods EXCEPT ![k].text = t]
    /\ fpe' = [name |-> "write", n |-> fpe.n + 1]
    /\ UNCHANGED <<cwd, editorVars, tableVars, importVars>>

\* FootprintEditor(PROJECT_DIR).relativize_3d_model_paths(search_root)
Relativize(search_root) ==
    /\ fpe.n < MaxFootprintCalls
    /\ LET r == relativize_3d_model_paths(mods, PROJECT_DIR, search_root, cwd)
       IN  /\ mods' = r.files
           /\ fpe' = [name |-> "relativize_3d_model_paths", n |-> fpe.n + 1,
                      search_root |-> search_root, total |-> r.total, written |-> r.written,
                      again |-> fpe.name = "relativize_3d_model_paths"
                                /\ fpe.search_root = search_root]
    /\ UNCHANGED <<cwd, editorVars, tableVars, importVars>>

FootprintsNext ==
    \/ \E k \in 1..Len(mods), t \in GeneratedFootprints : WriteFootprint(k, t)
    \/ \E search_root \in SearchRoots : Relativize(search_root)

SpecFootprints ==
    /\ FootprintsInit
    /\ [][FootprintsNext]_vars

-----------------------------------------------------------------------------
(* Properties of the footprint editor *)

\* the paths of the (model "<p>") forms of t from position i on, in order
RECURSIVE PathsFrom(_, _)
PathsFrom(t, i) ==
    LET hits == {k \in i..Len(t) : t[k] = LP /\ ModelMatchAt(t, k).end # 0}
    IN  IF hits = {} THEN <<>>
        ELSE LET m == ModelMatchAt(t, Min(hits))
             IN  <<Slice(t, m.vs, m.ve)>> \o PathsFrom(t, m.end)

PathsOf(t) == PathsFrom(t, 1)

\* t from position i on without the paths of its (model "<p>") forms
RECURSIVE SkeletonFrom(_, _)
SkeletonFrom(t, i) ==
    LET hits == {k \in i..Len(t) : t[k] = LP /\ ModelMatchAt(t, k).end # 0}
    IN  IF hits = {} THEN Tail_(t, i)
        ELSE LET m == ModelMatchAt(t, Min(hits))
             IN  Slice(t, i, m.vs) \o SkeletonFrom(t, m.ve)

Skeleton(t) == SkeletonFrom(t, 1)

\* p is absolute: it starts with a separator, or with a drive and a separator
C6_Absolute(p) ==
    \/ At(p, 1) \in {SLASH, BACKSLASH}
    \/ At(p, 1) \in Drives /\ At(p, 2) \in {SLASH, BACKSLASH}

\* where p leads, from the project directory, when it leads into it; else None
C6_InProject(p) == relative_to(Resolve(Posix(p), cwd), Resolve(PROJECT_DIR, cwd))

\* the path that C6 expects in place of p
C6_Expected(p) ==
    IF C6_Absolute(p) /\ (\A i \in 1..Len(p) : p[i] # "${") /\ C6_InProject(p) # None
    THEN KIPRJMOD \o RelPosix(C6_InProject(p))
    ELSE p

\* the number of paths of t that C6 expects to be rewritten
C6_Count(t) ==
    Cardinality({j \in 1..Len(PathsOf(t)) : C6_Expected(PathsOf(t)[j]) # PathsOf(t)[j]})

\* a step that is a call of relativize_3d_model_paths
Relativizes == fpe'.name = "relativize_3d_model_paths" /\ fpe'.n = fpe.n + 1

\* What C6 says of the paths and of the number returned: in the files that
\* are searched each model path p that is absolute, has no "${" and lies in
\* the project directory gives way to "${KIPRJMOD}/<p from the project
\* directory>", every other model path stays, the number returned is the
\* number of paths rewritten, and a second run in a row returns 0 and writes
\* no file.
C6_Paths ==
    LET searched == FootprintFiles(mods, fpe'.search_root)
        Sum[k \in 0..Len(mods)] ==
            IF k = 0 THEN 0
            ELSE Sum[k - 1] + (IF k \in searched THEN C6_Count(mods[k].text) ELSE 0)
    IN  /\ Len(mods') = Len(mods)
        /\ \A k \in 1..Len(mods) :
              /\ mods'[k].path = mods[k].path
              /\ PathsOf(mods'[k].text) =
                    [j \in 1..Len(PathsOf(mods[k].text)) |->
                        IF k \in searched THEN C6_Expected(PathsOf(mods[k].text)[j])
                        ELSE PathsOf(mods[k].text)[j]]
        /\ fpe'.total = Sum[Len(mods)]
        /\ fpe'.again => (fpe'.total = 0 /\ fpe'.written = 0 /\ mods' = mods)

\* C6 as stated: the paths are rewritten as C6 says, and all other footprint
\* text is left unchanged.
C6_RelativizeExact ==
    [][Relativizes =>
          /\ C6_Paths
          /\ \A k \in 1..Len(mods) : Skeleton(mods'[k].text) = Skeleton(mods[k].text)]_vars

\* C6 as amended: the paths are rewritten as C6 says; a file with no path to
\* rewrite is left as it is, and in a file with a path to rewrite all other
\* text is left unchanged but for its line ends, which are made "\n".
C6_RelativizeText ==
    [][Relativizes =>
          /\ C6_Paths
          /\ \A k \in 1..Len(mods) :
                IF k \in FootprintFiles(mods, fpe'.search_root) /\ C6_Count(mods[k].text) > 0
                THEN Skeleton(mods'[k].text) = Skeleton(read_text(mods[k].text))
                ELSE mods'[k].text = mods[k].text]_vars

\* C6's case: a second run over a library directory whose first run rewrote
\* the path inside the project, and left alone a path with a variable, a path
\* outside the project and a file that is no footprint
C6_Witness ==
    /\ fpe.name = "relativize_3d_model_paths"
    /\ fpe.again /\ fpe.total = 0
    /\ PathsOf(mods[1].text) = <<KIPRJMOD \o <<"lib", SLASH>> \o SHAPES>>
    /\ PathsOf(mods[2].text) = <<PATH_OUT>>
    /\ PathsOf(mods[3].text) = <<PATH_VAR, KIPRJMOD \o <<"lib", SLASH>> \o SHAPES>>
    /\ PathsOf(mods[4].text) = <<PATH_IN>>

-----------------------------------------------------------------------------
(* json.loads on the attributes JSON of the parts database: one flat        *)
(* object whose values are strings without escapes, or null.  "{", "}",     *)
(* ":" and "," are lexemes, and a key is one lexeme like every property     *)
(* name.  Any other text makes json.loads raise, or return something that   *)
(* is no dict: import_part adds no property then, either way.               *)

NoString == [next |-> 0, val |-> <<>>]

\* the JSON string at position i: its content and the position after it
JsonString(s, i) ==
    LET Closed(close) ==
            IF close = 0 THEN NoString
            ELSE [next |-> close, val |-> Slice(s, i + 1, close - 1)]
    IN  IF At(s, i) = QT THEN Closed(CloseQuote(s, i + 1)) ELSE NoString

\* the JSON value at position i: a string, or null (None)
JsonValue(s, i) ==
    IF At(s, i) = "null" THEN [next |-> i + 1, val |-> None] ELSE JsonString(s, i)

\* d[k] = v on a dict
DictSet(d, k, v) ==
    LET Stored(at) ==
            IF at = {} THEN Append(d, [name |-> k, val |-> v])
            ELSE [d EXCEPT ![Min(at)].val = v]
    IN  Stored({i \in 1..Len(d) : d[i].name = k})

JsonError == [ok |-> FALSE, items |-> <<>>]

\* the members of an object from position i on, `items` being those before
RECURSIVE JsonMembers(_, _, _)
JsonMembers(s, i, items) ==
    LET Next_(j, d) ==
            IF At(s, j) = "," THEN JsonMembers(s, SkipWS(s, j + 1), d)
            ELSE IF At(s, j) = "}" /\ SkipWS(s, j + 1) > Len(s)
            THEN [ok |-> TRUE, items |-> d]
            ELSE JsonError
        Member(key, v) ==
            IF v.next = 0 THEN JsonError
            ELSE Next_(SkipWS(s, v.next), DictSet(items, key.val, v.val))
        Colon(key, j) ==
            IF At(s, j) = ":" THEN Member(key, JsonValue(s, SkipWS(s, j + 1)))
            ELSE JsonError
        Key(key) == IF key.next = 0 THEN JsonError ELSE Colon(key, SkipWS(s, key.next))
    IN  Key(JsonString(s, i))

\* json.loads(s): [ok, items]; ok = FALSE when s is not such an object
json_loads(s) ==
    LET First(j) ==
            IF At(s, j) = "}"
            THEN IF SkipWS(s, j + 1) > Len(s) THEN [ok |-> TRUE, items |-> <<>>]
                 ELSE JsonError
            ELSE JsonMembers(s, j, <<>>)
        Open(i) == IF At(s, i) = "{" THEN First(SkipWS(s, i + 1)) ELSE JsonError
    IN  Open(SkipWS(s, 1))

-----------------------------------------------------------------------------
(* EasyedaImporter *)

\* settings["general"]: lib_prefix, and project_lib_dir (LIB_DIR)
LIB_PREFIX == <<"JLCPCB_">>
\* KICAD9_3RD_PARTY and the name of the plugin's folder
SYSTEM_DIR == <<SLASH, "kicad", SLASH, "3rdparty">>
PLUGIN_FOLDER == <<"jlcpcb">>

\* The lexemes that [A-Za-z0-9._-]+ does not match; each is one character.
Unsafe == {" ", "\t", "\n", "\r", "/", "&", ",", "(", ")", "\""}

RECURSIVE SkipUnsafe(_, _)
SkipUnsafe(s, i) == IF At(s, i) \in Unsafe THEN SkipUnsafe(s, i + 1) ELSE i

\* re.sub(r"[^A-Za-z0-9._-]+", "_", s) from position i on
RECURSIVE SanitizeFrom(_, _)
SanitizeFrom(s, i) ==
    IF i > Len(s) THEN <<>>
    ELSE IF s[i] \in Unsafe THEN <<"_">> \o SanitizeFrom(s, SkipUnsafe(s, i))
    ELSE <<s[i]>> \o SanitizeFrom(s, i + 1)

\* _sanitize(name)
_sanitize(name) == Or(SanitizeFrom(Strip(name), 1), <<"Misc">>)

\* path.with_suffix(suffix) of a path str whose name holds no "." but that
\* of its suffix
with_suffix(path, suffix) ==
    IF path[Len(path)] \in Suffixes THEN Head_(path, Len(path)) \o <<suffix>>
    ELSE path \o <<suffix>>

\* path.parent of a path str
Parent(path) == Head_(path, Max({k \in 1..Len(path) : path[k] = SLASH}))

\* _compute_outputs(category): symbols_path, footprints_path, models_3d_path
_compute_outputs(scope, category) ==
    LET In(folder) ==
            SYSTEM_DIR \o <<SLASH, folder, SLASH>> \o PLUGIN_FOLDER \o <<SLASH>>
            \o LIB_PREFIX \o category
        Same(lib) == [symbols_path |-> lib, footprints_path |-> lib, models_3d_path |-> lib]
    IN  IF scope = "system"
        THEN [symbols_path |-> In("symbols"), footprints_path |-> In("footprints"),
              models_3d_path |-> In("3dmodels")]
        ELSE Same(LIB_DIR \o <<SLASH>> \o LIB_PREFIX \o category)

\* the commands with the footprint command first and the symbol command last
COMMANDS_FootprintFirst == <<"--footprint", "--3d", "--symbol">>

\* _build_commands: the flag of each command, and the path its --output names
COMMANDS == <<"--symbol", "--3d", "--footprint">>

OutputOf(outputs, k) ==
    CASE COMMANDS[k] = "--symbol" -> outputs.symbols_path
      [] COMMANDS[k] = "--3d" -> outputs.models_3d_path
      [] COMMANDS[k] = "--footprint" -> outputs.footprints_path

\* key.lower().replace(" ", "_") of the keys of the for loop
META_KEYS == <<"Manufacturer", "Manufacturer Part", "Description">>

MetaKey(key) ==
    CASE key = "Manufacturer" -> "manufacturer"
      [] key = "Manufacturer Part" -> "manufacturer_part"
      [] key = "Description" -> "description"

\* the for loop over the keys, from the i-th on
RECURSIVE MetaProps(_, _, _)
MetaProps(meta, i, props) ==
    LET Put(val) == IF val # <<>> THEN DictSet(props, <<META_KEYS[i]>>, val) ELSE props
    IN  IF i > Len(META_KEYS) THEN props
        ELSE MetaProps(meta, i + 1, Put(Or(Get(meta, <<MetaKey(META_KEYS[i])>>), <<>>)))

\* for k, v in attrs.items(), from the i-th item on
RECURSIVE AttrProps(_, _, _)
AttrProps(items, i, props) ==
    IF i > Len(items) THEN props
    ELSE AttrProps(items, i + 1,
                   IF items[i].val = None THEN props
                   ELSE DictSet(props, items[i].name, items[i].val))

\* the `props` that import_part passes to apply_properties
BuildProps(meta) ==
    LET Attrs(attrs_json) ==
            IF attrs_json = <<>> THEN <<>> ELSE json_loads(attrs_json).items
    IN  AttrProps(Attrs(Or(Get(meta, <<"attributes_json">>), <<>>)), 1,
                  MetaProps(meta, 1, <<>>))

\* resolve_nickname_prefix() where the KiCad settings name no other prefix
NICKNAME_PREFIX == <<"PCM_">>

\* the patch with the nickname prefix added in the project scope too
PatchedSymbolFile_AlwaysPrefixed(file, scope, category, meta) ==
    LET Written(ed, new_text) == IF new_text # ed.text THEN new_text ELSE file
        Saved(ed, b) ==
            Written(ed, SavedText([text |-> ed.text, block_span |-> ed.block_span,
                                   block |-> b], TRUE))
        Patched(ed) ==
            IF ~ed.ok THEN file
            ELSE Saved(ed, apply_properties(IF scope \in {"system", "project"}
                                            THEN FootprintPrefixed(ed.block, NICKNAME_PREFIX).block
                                            ELSE ed.block,
                                            BuildProps(meta), category, TRUE, TRUE, TRUE).block)
    IN  Patched(_ensure_loaded_block([text |-> <<>>, block_span |-> <<>>, block |-> <<>>],
                                     file, Or(Get(meta, <<"mfr_part">>), <<>>)))

\* The try block that patches the symbol: what the symbol file holds after
\* it.  A ValueError of the editor ends the block with nothing saved.
PatchedSymbolFile(file, scope, category, meta) ==
    LET Written(ed, new_text) == IF new_text # ed.text THEN new_text ELSE file
        Saved(ed, b) ==
            Written(ed, SavedText([text |-> ed.text, block_span |-> ed.block_span,
                                   block |-> b], TRUE))
        Patched(ed) ==
            IF ~ed.ok THEN file
            ELSE Saved(ed, apply_properties(IF scope = "system"
                                            THEN FootprintPrefixed(ed.block, NICKNAME_PREFIX).block
                                            ELSE ed.block,
                                            BuildProps(meta), category, TRUE, TRUE, TRUE).block)
    IN  Patched(_ensure_loaded_block([text |-> <<>>, block_span |-> <<>>, block |-> <<>>],
                                     file, Or(Get(meta, <<"mfr_part">>), <<>>)))

\* repl(m) of rewrite_system_3d_model_paths for the match g0 = m.group(0)
\* with path = m.group(1): the replacement, and whether it changed anything
SystemRepl(g0, path, wrong_prefix, correct_prefix) ==
    LET Replaced(newp, at) ==
            IF newp # path
            THEN [out |-> Head_(g0, at) \o Q(newp) \o Tail_(g0, at + Len(path) + 2), n |-> 1]
            ELSE [out |-> g0, n |-> 0]
        Moved(norm) ==
            IF StartsWith(norm, wrong_prefix)
            THEN correct_prefix \o Tail_(norm, Len(wrong_prefix) + 1)
            ELSE path
    IN  Replaced(Moved(Posix(path)), Find(g0, Q(path), 1))

\* pattern.sub(repl, text) from position i on
RECURSIVE SystemSubFrom(_, _, _, _)
SystemSubFrom(t, i, wrong_prefix, correct_prefix) ==
    LET Joined(k, r, rest) == [out |-> Slice(t, i, k) \o r.out \o rest.out, n |-> r.n + rest.n]
        Sub(k, m) ==
            Joined(k, SystemRepl(Slice(t, k, m.end), Slice(t, m.vs, m.ve),
                                 wrong_prefix, correct_prefix),
                   SystemSubFrom(t, m.end, wrong_prefix, correct_prefix))
        First(k) == Sub(k, ModelMatchAt(t, k))
        Searched(hits) == IF hits = {} THEN [out |-> Tail_(t, i), n |-> 0] ELSE First(Min(hits))
    IN  Searched({k \in i..Len(t) : t[k] = LP /\ ModelMatchAt(t, k).end # 0})

\* rewrite_system_3d_model_paths(footprints_base, models3d_base): the files
\* afterwards and the number returned
rewrite_system_3d_model_paths(files, on_disk, footprints_base, models3d_base, wd) ==
    LET fp_root == with_suffix(footprints_base, ".pretty")
        Rewritten(sub, write) ==
            [files |-> [k \in 1..Len(files) |->
                           IF k \in write THEN [path |-> files[k].path, text |-> sub[k].out]
                           ELSE files[k]],
             total |-> Cardinality(write)]
        Changed(todo, sub) ==
            Rewritten(sub, {k \in todo : sub[k].n > 0 /\ sub[k].out # read_text(files[k].text)})
        Scanned(todo, wrong_prefix, correct_prefix) ==
            Changed(todo, [k \in todo |-> SystemSubFrom(read_text(files[k].text), 1,
                                                         wrong_prefix, correct_prefix)])
    IN  IF fp_root \notin on_disk THEN [files |-> files, total |-> 0]
        ELSE Scanned({k \in 1..Len(files) :
                         Below(files[k].path, fp_root) /\ HasSuffix(files[k].path, ".kicad_mod")},
                     AbsPosix(Resolve(with_suffix(footprints_base, ".3dshapes"), wd)),
                     AbsPosix(Resolve(with_suffix(models3d_base, ".3dshapes"), wd)))

\* The six _safe_remove calls of the system scope
Removed(outputs) ==
    (IF outputs.symbols_path # outputs.footprints_path
     THEN {outputs.symbols_path \o <<".pretty">>, outputs.footprints_path \o <<".kicad_sym">>}
     ELSE {})
    \cup (IF outputs.symbols_path # outputs.models_3d_path
          THEN {outputs.symbols_path \o <<".3dshapes">>, outputs.models_3d_path \o <<".kicad_sym">>}
          ELSE {})
    \cup (IF outputs.footprints_path # outputs.models_3d_path
          THEN {outputs.footprints_path \o <<".3dshapes">>, outputs.models_3d_path \o <<".pretty">>}
          ELSE {})

-----------------------------------------------------------------------------
(* Inputs: rows of the part list, and what easyeda2kicad writes for them *)

Row(lcsc, category, mfr_part, manufacturer, description, attributes) ==
    [lcsc |-> lcsc, category |-> category, mfr_part |-> mfr_part,
     manufacturer |-> manufacturer, description |-> description,
     attributes |-> attributes]

\* "key": "val" of an attributes JSON
JsonPair(key, val) == <<QT, key, QT, ":", SP, QT>> \o val \o <<QT>>

\* The rows of the part list: a resistor, a capacitor whose columns are
\* padded with white space, an inductor without a manufacturer, a ferrite
\* bead, a diode whose attributes are cut short, a row with an LCSC number
\* and nothing else, and a row without an LCSC number.
PartList ==
    { Row(<<"C25804">>, <<"Resistor", "s">>, RC0603, <<"YAGEO">>, <<"Res", SP, "10k">>,
          <<"{">> \o JsonPair("Resistance", <<"10k">>)
          \o <<",", SP, QT, "Tolerance", QT, ":", SP, "null", "}">>),
      Row(<<SP, "C1525">>, <<SP, "Capacitor", "s">>, CL10 \o <<SP>>, <<"Samsung">>, <<>>,
          <<"{">> \o JsonPair("Capacitance", <<"100nF">>) \o <<"}", NL>>),
      Row(<<"C408335">>, <<"Inductor", "s", "/", "Coil", "s", "/", "Transformer", "s">>,
          <<"SWPA4030">>, <<>>, <<"Power", SP, "inductor">>,
          <<"{">> \o JsonPair("Inductance", <<"10uH">>) \o <<",", SP>>
          \o JsonPair("Manufacturer", <<"Sunlord">>) \o <<"}">>),
      Row(<<"C1015">>, <<"Ferrite", SP, "Bead", "s">>, <<"BLM18">>, <<"Murata">>, <<"Bead">>,
          <<"{">> \o JsonPair("Impedance @ Frequency", <<"120R@100MHz">>) \o <<"}">>),
      Row(<<"C81598">>, <<"Diode", "s">>, <<"1N4148">>, <<"ST">>, <<"Switching", SP, "diode">>,
          <<"{">> \o JsonPair("Forward Voltage", <<"1V">>)),
      Row(<<"C2040">>, <<>>, <<>>, <<>>, <<>>, <<>>),
      Row(<<SP>>, <<"Resistor", "s">>, RC0603, <<"YAGEO">>, <<>>, <<>>) }

Scopes == {"project", "system"}

\* The sanitized categories of the part list, in the order that sorted()
\* gives the paths of their libraries
TargetOrder ==
    << <<"Capacitor", "s">>,
       <<"Diode", "s">>,
       <<"Ferrite", "_", "Bead", "s">>,
       <<"Inductor", "s", "_", "Coil", "s", "_", "Transformer", "s">>,
       <<"Misc">>,
       <<"Resistor", "s">> >>

LibSuffixes == <<".kicad_sym", ".pretty", ".3dshapes">>

\* every library that an import into the project can generate
ImportLibraries ==
    [n \in 1..(Len(TargetOrder) * Len(LibSuffixes)) |->
        LIB_DIR \o <<SLASH>> \o LIB_PREFIX \o TargetOrder[((n - 1) \div Len(LibSuffixes)) + 1]
        \o <<LibSuffixes[((n - 1) % Len(LibSuffixes)) + 1]>>]

\* What easyeda2kicad creates for --output=out before it fetches the part
Created(out) == {out \o <<LibSuffixes[n]>> : n \in 1..Len(LibSuffixes)}

\* the symbol easyeda2kicad generates under `title`: Value is the title
GeneratedSymbol(title, footprint, more) ==
    SymbolBlock(title,
                PropLine(VALUE, title, "1") \o PropLine(FOOTPRINT, footprint, "2") \o more,
                SubSymbol(title \o <<"_0_1">>, TwoPins))

\* a symbol of an earlier import
BlockOther == SymbolBlock(<<"BAT54">>, PropLine(VALUE, <<"BAT54">>, "1"), <<>>)

\* What the symbol library can hold after the --symbol command, for a part
\* whose manufacturer part is mfr_part: the symbol under that name, alone or
\* after an earlier symbol and with a Manufacturer property of its own, or
\* the symbol under the name that EasyEDA has for the part.
GeneratedSymbolFiles(mfr_part, footprint) ==
    LET title == Or(mfr_part, <<"part">>) \o <<"_", "EE">>
    IN  { SymLib(<<GeneratedSymbol(t, footprint, <<>>)>>) : t \in {mfr_part, title} \ {<<>>} }
        \cup { SymLib(<<BlockOther,
                        GeneratedSymbol(t, footprint,
                                        PropLine(<<"Manufacturer">>, <<"EasyEDA">>, "3"))>>) :
                 t \in {mfr_part, title} \ {<<>>} }

\* the footprint file that the --footprint command writes for --output=out
GeneratedFootprint(out) ==
    File(out \o <<".pretty", SLASH, "R0603", ".kicad_mod">>,
         One(out \o <<".3dshapes", SLASH, "R0603", ".wrl">>))

\* the library of an earlier import into the project, and its footprint
PRIOR == LIB_DIR \o <<SLASH>> \o LIB_PREFIX \o <<"Diode", "s">>

PriorFootprint ==
    File(PRIOR \o <<".pretty", SLASH, "SOD-123", ".kicad_mod">>,
         One(KIPRJMOD \o <<"lib", SLASH>> \o LIB_PREFIX
             \o <<"Diode", "s", ".3dshapes", SLASH, "SOD-123", ".wrl">>))

\* The project's tables before the import: none, or tables in which the
\* name of the resistor library is taken
ImportTables ==
    { << <<>>, <<>> >>,
      << TableOf("sym", LibEntry(LIB_PREFIX \o <<"Resistor", "s">>, OTHER_URI)), FP_TABLE >> }

-----------------------------------------------------------------------------
(* select_part and the import worker as a state machine.  The worker runs   *)
(* import_part; it waits for each easyeda2kicad command, and goes on when    *)
(* the command exits.                                                        *)

ImportInit ==
    /\ cwd = PROJECT_DIR
    /\ \E tables \in ImportTables : sym_tbl = tables[1] /\ fp_tbl = tables[2]
    /\ \E prior \in BOOLEAN :
          /\ disk = IF prior THEN Created(PRIOR) ELSE {}
          /\ mods = IF prior THEN <<PriorFootprint>> ELSE <<>>
    /\ tbl = [name |-> "none", n |-> 0]
    /\ fpe = [name |-> "none", n |-> 0]
    /\ EditorIdle /\ ImportIdle

\* the file at files[k].path is written, or rewritten, with f.text
WriteFile(files, f) ==
    LET Put(at) == IF at = {} THEN Append(files, f) ELSE [files EXCEPT ![Min(at)] = f]
    IN  Put({k \in 1..Len(files) : files[k].path = f.path})

\* select_part on row r with library_scope set to scope, up to the first
\* command that import_part starts
SelectPart(r, scope) ==
    /\ imp.pc = "idle"
    /\ Strip(r.lcsc) # <<>>
    /\ part' = r
    /\ imp' = [pc |-> "commands",
               scope |-> scope,
               lcsc_id |-> Strip(r.lcsc),
               category |-> _sanitize(Or(Strip(r.category), <<"Misc">>)),
               meta |-> << [name |-> <<"mfr_part">>, val |-> Strip(r.mfr_part)],
                           [name |-> <<"manufacturer">>, val |-> Strip(r.manufacturer)],
                           [name |-> <<"description">>, val |-> Strip(r.description)],
                           [name |-> <<"attributes_json">>, val |-> Strip(r.attributes)] >>,
               ran |-> <<>>,
               result |-> NoResult]
    /\ UNCHANGED <<cwd, editorVars, tableVars, footprintVars, dlg, scan>>

Outputs == _compute_outputs(imp.scope, imp.category)

\* the command that runs exits with a code other than 0: import_part
\* returns False
CommandFails(code) ==
    /\ imp.pc = "commands"
    /\ code # 0
    /\ imp' = [imp EXCEPT !.pc = "returned",
                          !.ran = Append(@, code),
                          !.result = [kind |-> "bool", ok |-> FALSE]]
    /\ UNCHANGED <<part, cwd, editorVars, tableVars, footprintVars, dlg, scan>>

\* what a command that exits with code 0 can leave in the symbol library
SymbolOutcomes ==
    IF imp.pc # "commands" THEN {}
    ELSE IF COMMANDS[Len(imp.ran) + 1] = "--symbol"
    THEN GeneratedSymbolFiles(Get(imp.meta, <<"mfr_part">>),
                              LIB_PREFIX \o imp.category \o <<":", "R0603">>)
    ELSE {sym_file}

\* the --symbol or the --3d command exits with code 0, the --symbol command
\* having left f in the symbol library: import_part starts the next command
CommandSucceeds(f) ==
    /\ imp.pc = "commands"
    /\ Len(imp.ran) + 1 < Len(COMMANDS)
    /\ f \in SymbolOutcomes
    /\ sym_file' = f
    /\ disk' = disk \cup Created(OutputOf(Outputs, Len(imp.ran) + 1))
    /\ imp' = [imp EXCEPT !.ran = Append(@, 0)]
    /\ UNCHANGED <<part, cwd, symbol_id, text, block_span, block, args, op, ret, calls,
                   sym_tbl, fp_tbl, tbl, footprintVars, dlg, scan>>

\* the project scope after the patch: the library tables, then the model paths
ProjectScope(on_disk, files) ==
    LET lib_base == Parent(Outputs.symbols_path)
        Registered(r) == sym_tbl' = r.sym_tbl /\ fp_tbl' = r.fp_tbl
    IN  /\ Registered(ensure_project_lib_tables(
                          sym_tbl, fp_tbl,
                          FoundIn(ImportLibraries, on_disk, lib_base, ".kicad_sym"),
                          FoundIn(ImportLibraries, on_disk, lib_base, ".pretty"),
                          TRUE, cwd))
        /\ mods' = relativize_3d_model_paths(files, PROJECT_DIR, lib_base, cwd).files
        /\ disk' = on_disk
        /\ imp' = [imp EXCEPT !.pc = "returned",
                              !.ran = Append(@, 0),
                              !.result = [kind |-> "pair", ok |-> TRUE, lib_base |-> lib_base]]

\* the system scope after the patch: the clean-up, then the model paths;
\* "return True, lib_base" finds lib_base unbound
SystemScope(on_disk, files) ==
    LET Kept(rewritten, removed) ==
            SelectSeq(rewritten, LAMBDA f : \A d \in removed : ~Below(f.path, d))
        Cleaned(removed) ==
            /\ disk' = on_disk \ removed
            /\ mods' = Kept(rewrite_system_3d_model_paths(
                                files, on_disk \ removed, Outputs.footprints_path,
                                Outputs.models_3d_path, cwd).files,
                            removed)
    IN  /\ Cleaned(Removed(Outputs))
        /\ UNCHANGED <<sym_tbl, fp_tbl>>
        /\ imp' = [imp EXCEPT !.pc = "returned",
                              !.ran = Append(@, 0),
                              !.result = [kind |-> "raised", error |-> "UnboundLocalError"]]

\* the --footprint command exits with code 0: import_part patches the
\* symbol, goes on as its scope says, and returns
ImportCompletes ==
    /\ imp.pc = "commands"
    /\ Len(imp.ran) + 1 = Len(COMMANDS)
    /\ sym_file' = PatchedSymbolFile(sym_file, imp.scope, imp.category, imp.meta)
    /\ IF imp.scope = "system"
       THEN SystemScope(disk \cup Created(Outputs.footprints_path),
                        WriteFile(mods, GeneratedFootprint(Outputs.footprints_path)))
       ELSE ProjectScope(disk \cup Created(Outputs.footprints_path),
                         WriteFile(mods, GeneratedFootprint(Outputs.footprints_path)))
    /\ UNCHANGED <<part, cwd, symbol_id, text, block_span, block, args, op, ret, calls,
                   tbl, fpe, dlg, scan>>

ImportNext ==
    \/ \E r \in PartList, scope \in Scopes : SelectPart(r, scope)
    \/ \E code \in {1, 2} : CommandFails(code)
    \/ \E f \in SymbolOutcomes : CommandSucceeds(f)
    \/ ImportCompletes

SpecImport ==
    /\ ImportInit
    /\ [][ImportNext]_vars

-----------------------------------------------------------------------------
(* AssignLCSCMainDialog as a state machine: the check of the dependency,    *)
(* the user's events on the part list and on the select-part button, the    *)
(* choice of the library scope, and the worker threads of import and of     *)
(* installation.  A call that a worker hands to wx.CallAfter is made in the *)
(* step of the worker.                                                      *)

MaxEvents == 4

\* settings["general"].get("library_scope"); "none" is None (no such key)
StoredScopes == {"none", "project", "system", "user"}

\* what the "Where to store libraries?" dialog returns; "none" is None
ScopeChoices == {"project", "system", "none"}

\* the rows of the part list: a part, and a row without LCSC number
Rows == {"part", "no lcsc"}

DialogInit ==
    /\ \E importable \in BOOLEAN, scope \in StoredScopes :
          dlg = [pc |-> "constructed",
                 importable |-> importable,  \* __import__("easyeda2kicad") succeeds
                 imported |-> FALSE,         \* __import__("easyeda2kicad") has succeeded
                 _deps_ready |-> FALSE,
                 button |-> FALSE,           \* select_part_button is enabled
                 row |-> "none",             \* the selected row of part_list
                 settings |-> scope,         \* library_scope in self.settings
                 saved |-> scope,            \* library_scope in settings.json
                 asked |-> 0,                \* times the scope dialog was shown
                 installs |-> 0,             \* installation workers that run
                 install |-> [ran |-> <<>>,  \* the installation worker that ended
                              box |-> "none",       \* last: its commands, its
                              checked |-> FALSE],   \* box, its import check
                 workers |-> <<>>,           \* the import workers started
                 last |-> "__init__",        \* what the last handler did
                 events |-> 0]               \* user events so far
    /\ part = NoPart
    /\ imp = [pc |-> "idle", ran |-> <<>>, result |-> NoResult]
    /\ scan = NoScan
    /\ cwd = <<"/">>
    /\ EditorIdle /\ FootprintsIdle /\ LibrariesIdle

\* _update_select_enabled
_update_select_enabled(d) == [d EXCEPT !.button = d._deps_ready]

\* _check_and_offer_install_deps(force_prompt); answer is the button of the
\* "Install dependencies" question; _install_requirements starts a worker
_check_and_offer_install_deps(d, force_prompt, answer) ==
    IF d.importable
    THEN _update_select_enabled([d EXCEPT !._deps_ready = TRUE, !.imported = TRUE,
                                          !.last = "deps ready"])
    ELSE IF force_prompt \/ ~d._deps_ready
    THEN IF answer = "yes"
         THEN _update_select_enabled([d EXCEPT !._deps_ready = FALSE, !.installs = @ + 1,
                                               !.last = "install"])
         ELSE _update_select_enabled([d EXCEPT !._deps_ready = FALSE, !.last = "declined"])
    ELSE [d EXCEPT !.last = "deps missing"]

\* the scope asked for and returned, nothing stored
_ensure_library_scope_selected_NotStored(d, choice) ==
    IF d.settings \in {"project", "system"}
    THEN [scope |-> d.settings, dlg |-> d]
    ELSE [scope |-> choice, dlg |-> [d EXCEPT !.asked = @ + 1]]

\* _ensure_library_scope_selected: [scope, dlg], scope "none" for None
_ensure_library_scope_selected(d, choice) ==
    IF d.settings \in {"project", "system"}
    THEN [scope |-> d.settings, dlg |-> d]
    ELSE IF choice \in {"project", "system"}
    THEN [scope |-> choice,
          dlg |-> [d EXCEPT !.settings = choice, !.saved = choice, !.asked = @ + 1]]
    ELSE [scope |-> "none", dlg |-> [d EXCEPT !.asked = @ + 1]]

\* _import_part_via_easyeda, up to the start of the worker thread
_import_part_via_easyeda(d, choice) ==
    LET Started(r) ==
            IF r.scope = "none"
            THEN [r.dlg EXCEPT !.last = "Import canceled"]
            ELSE [r.dlg EXCEPT !.button = FALSE,
                               !.workers = Append(@, [pc |-> "import_part",
                                                      scope |-> r.scope,
                                                      result |-> NoResult,
                                                      log |-> <<>>,
                                                      boxes |-> <<>>]),
                               !.last = "import"]
    IN  Started(_ensure_library_scope_selected(d, choice))

\* select_part without the test of _deps_ready
select_part_Unchecked(d, answer, choice) ==
    IF d.row = "none" THEN [d EXCEPT !.last = "No selection"]
    ELSE IF d.row = "no lcsc" THEN [d EXCEPT !.last = "No LCSC"]
    ELSE _import_part_via_easyeda(d, choice)

\* select_part
select_part(d, answer, choice) ==
    IF ~d._deps_ready THEN _check_and_offer_install_deps(d, TRUE, answer)
    ELSE IF d.row = "none" THEN [d EXCEPT !.last = "No selection"]
    ELSE IF d.row = "no lcsc" THEN [d EXCEPT !.last = "No LCSC"]
    ELSE _import_part_via_easyeda(d, choice)

\* a step of the dialog: the other objects are not in use
Dialog(d) ==
    /\ dlg' = d
    /\ UNCHANGED <<editorVars, cwd, tableVars, footprintVars, part, imp, scan>>

\* the end of __init__: the check of the dependency at the first launch
StartupCheck(answer) ==
    /\ dlg.pc = "constructed"
    /\ Dialog(_update_select_enabled(
                  [_check_and_offer_install_deps(dlg, FALSE, answer) EXCEPT !.pc = "open"]))

UserEvent == dlg.pc = "open" /\ dlg.events < MaxEvents

\* EVT_DATAVIEW_SELECTION_CHANGED: OnPartSelected, row is the row now
\* selected, "none" when the selection is empty
OnPartSelected(row) ==
    /\ UserEvent
    /\ row # dlg.row
    /\ Dialog([dlg EXCEPT !.row = row, !.button = (row # "none"),
                          !.last = "OnPartSelected", !.events = @ + 1])

\* EVT_BUTTON of select_part_button: a click on the enabled button
ButtonClicked(answer, choice) ==
    /\ UserEvent
    /\ dlg.button
    /\ Dialog(select_part([dlg EXCEPT !.events = @ + 1], answer, choice))

\* EVT_DATAVIEW_ITEM_ACTIVATED: a double click on the selected row
ItemActivated(answer, choice) ==
    /\ UserEvent
    /\ dlg.row # "none"
    /\ Dialog(select_part([dlg EXCEPT !.events = @ + 1], answer, choice))

\* what import_part does at its end for a scope: return False, return
\* (True, lib_base), or raise at "return True, lib_base"
ImportResults(scope) ==
    { [kind |-> "bool", ok |-> FALSE],
      IF scope = "system" THEN [kind |-> "raised", ok |-> FALSE]
      ELSE [kind |-> "pair", ok |-> TRUE] }

\* _worker of _import_part_via_easyeda after import_part has ended with
\* result: the worker w with its log lines and message boxes
_worker(w, result) ==
    LET Caught == IF result.kind = "pair" THEN <<>> ELSE <<"exception">>
        Reported(w2) ==
            IF result.kind # "pair" THEN w2
            ELSE IF result.ok
            THEN [w2 EXCEPT !.log = Append(@, "Import completed"),
                            !.boxes = Append(@, "Done")]
            ELSE [w2 EXCEPT !.log = Append(@, "Import finished with an error."),
                            !.boxes = Append(@, "Error")]
    IN  Reported([w EXCEPT !.pc = "ended", !.result = result, !.log = @ \o Caught])

\* the import worker k comes to its end; import_part ended with result
ImportWorkerEnds(k, result) ==
    /\ dlg.pc = "open"
    /\ k \in 1..Len(dlg.workers)
    /\ dlg.workers[k].pc = "import_part"
    /\ result \in ImportResults(dlg.workers[k].scope)
    /\ Dialog([dlg EXCEPT !.workers[k] = _worker(@, result), !.button = TRUE,
                          !.last = "_worker"])

\* the commands with the pip install run again whatever ensurepip exited with
InstallRun_AlwaysRetry(ret1, ret2, ret3) ==
    IF ret1 = 0 THEN [ran |-> <<[cmd |-> "pip install", code |-> ret1]>>, ret |-> ret1]
    ELSE [ran |-> <<[cmd |-> "pip install", code |-> ret1],
                    [cmd |-> "ensurepip", code |-> ret2],
                    [cmd |-> "pip install", code |-> ret3]>>,
          ret |-> ret3]

\* The commands that _worker of _install_requirements runs, with the codes
\* they exit with, and the value of ret after them: ret1 is the exit code of
\* the pip install, ret2 of ensurepip, ret3 of the pip install run again
InstallRun(ret1, ret2, ret3) ==
    IF ret1 = 0 THEN [ran |-> <<[cmd |-> "pip install", code |-> ret1]>>, ret |-> ret1]
    ELSE IF ret2 = 0
    THEN [ran |-> <<[cmd |-> "pip install", code |-> ret1],
                    [cmd |-> "ensurepip", code |-> ret2],
                    [cmd |-> "pip install", code |-> ret3]>>,
          ret |-> ret3]
    ELSE [ran |-> <<[cmd |-> "pip install", code |-> ret1],
                    [cmd |-> "ensurepip", code |-> ret2]>>,
          ret |-> ret1]

ExitCodes == {0, 1}

\* _worker of _install_requirements comes to its end: its commands exited
\* with ret1, ret2 and ret3, and the import of the module then succeeds or not
InstallWorkerEnds(ret1, ret2, ret3, import_ok) ==
    /\ dlg.pc = "open"
    /\ dlg.installs > 0
    /\ dlg.importable => import_ok
    /\ LET Ended(run) ==
               IF run.ret # 0
               THEN [dlg EXCEPT !.installs = @ - 1, !.last = "pip failed",
                                !.install = [ran |-> run.ran, box |-> "Error",
                                             checked |-> FALSE]]
               ELSE IF import_ok
               THEN _update_select_enabled(
                        [dlg EXCEPT !.installs = @ - 1, !.importable = TRUE,
                                    !.imported = TRUE, !._deps_ready = TRUE,
                                    !.last = "installed",
                                    !.install = [ran |-> run.ran, box |-> "Done",
                                                 checked |-> TRUE]])
               ELSE _update_select_enabled(
                        [dlg EXCEPT !.installs = @ - 1, !._deps_ready = FALSE,
                                    !.last = "import failed",
                                    !.install = [ran |-> run.ran, box |-> "Warning",
                                                 checked |-> TRUE]])
       IN  Dialog(Ended(InstallRun(ret1, ret2, ret3)))

Answers == {"yes", "no"}

DialogNext ==
    \/ \E answer \in Answers : StartupCheck(answer)
    \/ \E row \in Rows \cup {"none"} : OnPartSelected(row)
    \/ \E answer \in Answers, choice \in ScopeChoices : ButtonClicked(answer, choice)
    \/ \E answer \in Answers, choice \in ScopeChoices : ItemActivated(answer, choice)
    \/ \E k \in 1..Len(dlg.workers), result \in {[kind |-> kind, ok |-> ok] :
                                                      kind \in {"bool", "pair", "raised"},
                                                      ok \in BOOLEAN} :
          ImportWorkerEnds(k, result)
    \/ \E ret1 \in ExitCodes, ret2 \in ExitCodes, ret3 \in ExitCodes, import_ok \in BOOLEAN :
          InstallWorkerEnds(ret1, ret2, ret3, import_ok)

SpecDialog ==
    /\ DialogInit
    /\ [][DialogNext]_vars

-----------------------------------------------------------------------------
(* _find_blocks as a function of any text: the texts are the sequences of   *)
(* at most MaxScanLen pieces, a piece being "(symbol ", a parenthesis, a    *)
(* double quote or a word.                                                  *)

MaxScanLen == 5

ScanPieces == {SYMBOL_OPEN, <<LP>>, <<RP>>, <<QT>>, <<"a">>}

RECURSIVE Joined(_)
Joined(pieces) == IF pieces = <<>> THEN <<>> ELSE pieces[1] \o Joined(Tail(pieces))

ScanTexts ==
    UNION { {Joined(pieces) : pieces \in [1..n -> ScanPieces]} : n \in 0..MaxScanLen }

ScanInit ==
    /\ \E src \in ScanTexts : scan = [pc |-> "call", src |-> src, blocks |-> <<>>]
    /\ part = NoPart
    /\ imp = [pc |-> "idle", ran |-> <<>>, result |-> NoResult]
    /\ dlg = NoDialog
    /\ cwd = <<"/">>
    /\ EditorIdle /\ FootprintsIdle /\ LibrariesIdle

\* blocks = SymbolEditor._find_blocks(src)
FindBlocks ==
    /\ scan.pc = "call"
    /\ scan' = [scan EXCEPT !.pc = "returned", !.blocks = _find_blocks(scan.src)]
    /\ UNCHANGED <<editorVars, cwd, tableVars, footprintVars, part, imp, dlg>>

SpecScan ==
    /\ ScanInit
    /\ [][FindBlocks]_vars

-----------------------------------------------------------------------------
(* Claims about select_part and import_part *)

\* the symbol that import_part patches in `file` for the part number mfr_part
TargetSymbol(file, mfr_part) ==
    _ensure_loaded_block([text |-> <<>>, block_span |-> <<>>, block |-> <<>>],
                         file, mfr_part)

\* the step in which import_part returns (True, lib_base)
Imported ==
    /\ imp.pc = "commands"
    /\ imp'.pc = "returned"
    /\ imp'.result.kind = "pair"
    /\ imp'.result.ok

\* the column `val` of the selected row is carried by the property `name`:
\* it is empty, or the symbol had a non-empty property of that name, or it
\* equals the symbol's Value, or the property now holds it
Carried(old, new, name, val) ==
    \/ val = <<>>
    \/ Truthy(_get_prop_value(old, name))
    \/ val = Strip(ValueOf(old))
    \/ _get_prop_value(new, name) = val

\* C8 as stated: after a successful import the target symbol carries the
\* properties Manufacturer, Manufacturer Part and Description holding the
\* manufacturer, the manufacturer part number and the description of the
\* selected part, for each of these that is non-empty, unless the symbol
\* already had a non-empty property of that name or the value equals the
\* symbol's Value.
C8_MetadataCarried ==
    [][Imported =>
         LET All(old, new) ==
                 old.ok =>
                    /\ new.ok
                    /\ Carried(old.block, new.block, <<"Manufacturer">>,
                               Strip(part.manufacturer))
                    /\ Carried(old.block, new.block, <<"Manufacturer Part">>,
                               Strip(part.mfr_part))
                    /\ Carried(old.block, new.block, <<"Description">>,
                               Strip(part.description))
         IN  All(TargetSymbol(sym_file, Strip(part.mfr_part)),
                 TargetSymbol(sym_file', Strip(part.mfr_part)))]_vars

\* the primary attribute of the selected part: the attribute that C7 names
\* for its category, read from its attributes JSON; None when there is none
SelectedPrimary ==
    LET Named(attrs) ==
            IF attrs.ok THEN C7_Attribute(Lower(Strip(part.category)), attrs.items)
            ELSE None
    IN  Named(json_loads(Strip(part.attributes)))

\* C9 as stated: for a part of a resistor, capacitor, inductor/coil or
\* ferrite/bead category whose generated symbol has Value equal to its
\* manufacturer part number, and whose attributes JSON contains the matching
\* primary attribute, a successful import through select_part and
\* import_part sets the symbol's Value to that primary attribute.
C9_ValueFromAttribute ==
    [][Imported =>
         LET Set(old, new, primary) ==
                 ( /\ old.ok
                   /\ Strip(part.mfr_part) # <<>>
                   /\ ValueOf(old.block) = Strip(part.mfr_part)
                   /\ Truthy(primary) )
                 => (new.ok /\ ValueOf(new.block) = primary)
         IN  Set(TargetSymbol(sym_file, Strip(part.mfr_part)),
                 TargetSymbol(sym_file', Strip(part.mfr_part)),
                 SelectedPrimary)]_vars

\* C16 as stated: import_part returns a pair (ok, lib_base) in every outcome
\* and for both scopes, without raising; ok is False when one of the commands
\* exited non-zero and True when all three exited 0.
C16_ReturnsPair ==
    imp.pc = "returned" =>
        /\ imp.result.kind = "pair"
        /\ imp.result.ok <=> (\A k \in 1..Len(imp.ran) : imp.ran[k] = 0)

\* the --output of the k-th command in the order symbol, 3D model, footprint
C17_Output(k) ==
    <<Outputs.symbols_path, Outputs.models_3d_path, Outputs.footprints_path>>[k]

\* the library that the k-th command in that order is run for
C17_Library(k) == C17_Output(k) \o <<<<".kicad_sym", ".3dshapes", ".pretty">>[k]>>

\* C17: the commands run in the order symbol, 3D model, footprint, each one
\* only after the one before exited with code 0; the exit of a command with
\* another code leaves the symbol library, the footprints, the library tables
\* and the files on disk as they are, and nothing is run or changed after it.
C17_InOrderUntilFailure ==
    [][LET n == Len(imp.ran)
       IN  /\ (n > 0 /\ imp.ran[n] # 0) => UNCHANGED vars
           /\ Len(imp'.ran) # n =>
                 /\ n < 3 /\ Len(imp'.ran) = n + 1
                 /\ \A k \in 1..n : imp.ran[k] = 0
                 /\ IF imp'.ran[n + 1] = 0
                    THEN /\ C17_Library(n + 1) \in disk'
                         /\ (disk' \ disk) \subseteq Created(C17_Output(n + 1))
                    ELSE /\ imp'.pc = "returned"
                         /\ UNCHANGED <<sym_file, disk, mods, sym_tbl, fp_tbl, cwd>>]_vars

\* C17's case: the 3D model command of an import into the system libraries
\* exited with a code other than 0 after the symbol command had exited with 0
C17_Witness ==
    /\ imp.pc = "returned"
    /\ imp.scope = "system"
    /\ Len(imp.ran) = 2 /\ imp.ran[1] = 0 /\ imp.ran[2] # 0
    /\ Outputs.symbols_path \o <<".kicad_sym">> \in disk
    /\ Outputs.footprints_path \o <<".pretty">> \notin disk

-----------------------------------------------------------------------------
(* Claims about the dialog *)

\* a step in which select_part reached _import_part_via_easyeda
ImportAsked == dlg'.events = dlg.events + 1 /\ dlg'.last \in {"import", "Import canceled"}

\* the workers that run import_part
Running(d) == {k \in 1..Len(d.workers) : d.workers[k].pc = "import_part"}

\* C15: with library_scope stored as 'project' or 'system' the import uses
\* the stored scope and the user is not asked; otherwise the user is asked,
\* a choice is stored in the settings, written to settings.json and used for
\* the import, and without a choice the settings and settings.json stay as
\* they are and no import is started.
C15_ScopeSelected ==
    [][ImportAsked =>
          LET StartedWith(scope) ==
                  /\ dlg'.workers = Append(dlg.workers,
                                           [pc |-> "import_part", scope |-> scope,
                                            result |-> NoResult, log |-> <<>>, boxes |-> <<>>])
                  /\ dlg'.settings = scope /\ dlg'.saved = scope
          IN  IF dlg.settings \in {"project", "system"}
              THEN dlg'.asked = dlg.asked /\ StartedWith(dlg.settings)
                   /\ dlg'.saved = dlg.saved
              ELSE /\ dlg'.asked = dlg.asked + 1
                   /\ \/ StartedWith("project")
                      \/ StartedWith("system")
                      \/ /\ dlg'.last = "Import canceled"
                         /\ dlg'.workers = dlg.workers
                         /\ dlg'.settings = dlg.settings /\ dlg'.saved = dlg.saved]_vars

\* C15's case: the user closed the scope dialog at a first request, chose
\* the system scope at a second, and a third import started without a dialog
C15_Witness ==
    /\ dlg.pc = "open"
    /\ dlg.asked = 2
    /\ Len(dlg.workers) = 2
    /\ dlg.settings = "system" /\ dlg.saved = "system"
    /\ dlg.workers[2].scope = "system"
    /\ dlg.last = "import"

\* C18 as stated: an import worker that ends has reported exactly one
\* outcome, 'Import completed' and the 'Done' box when import_part
\* succeeded, 'Import finished with an error.' and the 'Error' box when a
\* command failed or import_part raised, and the button is enabled again.
C18_OneOutcome ==
    [][\A k \in Running(dlg) :
          dlg'.workers[k].pc = "ended" =>
             LET Reported(w) ==
                     IF w.result.kind = "pair" /\ w.result.ok
                     THEN w.log = <<"Import completed">> /\ w.boxes = <<"Done">>
                     ELSE /\ w.boxes = <<"Error">>
                          /\ \E n \in 1..Len(w.log) : w.log[n] = "Import finished with an error."
                          /\ \A n \in 1..Len(w.log) : w.log[n] # "Import completed"
             IN  dlg'.button /\ Reported(dlg'.workers[k])]_vars

\* C19 as stated: at most one import worker runs at any time.
C19_OneWorker == dlg.pc = "open" => Cardinality(Running(dlg)) <= 1

\* C20: an import worker is started only when _deps_ready is True; a
\* select_part with _deps_ready False only offers the installation again;
\* and _deps_ready is True only when an import of easyeda2kicad has succeeded.
C20_DepsReady ==
    [][/\ Len(dlg'.workers) > Len(dlg.workers) => dlg._deps_ready
       /\ (dlg.pc = "open" /\ dlg'.events # dlg.events /\ dlg.row # "none"
           /\ dlg'.row = dlg.row /\ ~dlg._deps_ready) =>
              /\ dlg'.last \in {"deps ready", "install", "declined"}
              /\ dlg'.workers = dlg.workers
              /\ dlg'.settings = dlg.settings
       /\ dlg'._deps_ready => dlg'.imported]_vars

\* C20's case: a row was activated while the dependency was missing, the
\* installation was declined and no import has started
C20_Witness ==
    /\ dlg.pc = "open"
    /\ dlg.row = "part"
    /\ dlg.events >= 2
    /\ dlg.last = "declined"
    /\ ~dlg._deps_ready
    /\ dlg.workers = <<>>

\* a step in which an installation worker comes to its end
InstallEnded == dlg.pc = "open" /\ dlg'.installs < dlg.installs

Patching ==
    /\ imp.pc = "commands"
    /\ imp'.pc = "returned"
    /\ imp'.ran[Len(imp'.ran)] = 0

\* C22: in the system scope import_part leaves sym-lib-table and fp-lib-table
\* as they are and writes no ${KIPRJMOD} path into a footprint; in the
\* project scope it leaves every Footprint value of the symbol library as it
\* is and removes no library and no footprint file.
C22_ScopesApart ==
    [][Patching =>
          IF imp.scope = "system"
          THEN /\ sym_tbl' = sym_tbl /\ fp_tbl' = fp_tbl
               /\ \A k \in 1..Len(mods') :
                     Contains(mods'[k].text, <<"${", "KIPRJMOD">>) =>
                        \E j \in 1..Len(mods) : mods[j] = mods'[k]
          ELSE /\ FootprintValues(sym_file') = FootprintValues(sym_file)
               /\ disk \subseteq disk'
               /\ \A j \in 1..Len(mods) :
                     \E k \in 1..Len(mods') : mods'[k].path = mods[j].path]_vars

\* C22's case: an import into the system libraries has run to its end in a
\* project that has library tables and a footprint with a ${KIPRJMOD} path;
\* the Footprint value got the nickname prefix and artifacts were removed
C22_Witness ==
    /\ imp.pc = "returned"
    /\ imp.scope = "system"
    /\ Len(imp.ran) = 3 /\ imp.ran[3] = 0
    /\ sym_tbl # <<>> /\ fp_tbl = FP_TABLE
    /\ PriorFootprint \in {mods[k] : k \in 1..Len(mods)}
    /\ Len(mods) = 2
    /\ Contains(sym_file, Q(NICKNAME_PREFIX \o LIB_PREFIX \o imp.category \o <<":", "R0603">>))
    /\ Outputs.symbols_path \o <<".pretty">> \notin disk

-----------------------------------------------------------------------------
(* Claims about _find_blocks on any text *)

\* Position i of src lies inside a double-quoted string.
InString(src, i) == Cardinality({k \in 1..(i - 1) : src[k] = QT}) % 2 = 1

\* The position just after the parenthesis that closes the form opened at
\* start, parentheses inside strings being text; 0 when the form is not closed.
FormEnd(src, start) ==
    LET Open(i) == Cardinality({k \in start..i : src[k] = LP /\ ~InString(src, k)})
                   - Cardinality({k \in start..i : src[k] = RP /\ ~InString(src, k)})
        closes == {i \in start..Len(src) :
                       src[i] = RP /\ ~InString(src, i) /\ Open(i) = 0}
    IN  IF closes = {} THEN 0 ELSE Min(closes) + 1

\* C23: for every text _find_blocks returns spans in increasing order that do
\* not overlap, each starting at an occurrence of "(symbol " and ending just
\* after the parenthesis that closes it; no returned span lies inside another
\* one, and an occurrence of "(symbol " that is never closed yields no span.
C23_BlocksOfAnyText ==
    scan.pc = "returned" =>
        LET src == scan.src
            Holds(blocks) ==
                /\ \A k \in 1..Len(blocks) :
                      /\ MatchAt(src, blocks[k][1], SYMBOL_OPEN)
                      /\ blocks[k][2] = FormEnd(src, blocks[k][1])
                      /\ blocks[k][1] < blocks[k][2]
                /\ \A k \in 1..(Len(blocks) - 1) : blocks[k][2] <= blocks[k + 1][1]
                /\ \A k \in 1..Len(blocks), j \in 1..Len(blocks) :
                      j # k => ~(blocks[k][1] <= blocks[j][1] /\ blocks[j][2] <= blocks[k][2])
                /\ \A start \in 1..Len(src) :
                      MatchAt(src, start, SYMBOL_OPEN) /\ FormEnd(src, start) = 0
                          => \A k \in 1..Len(blocks) : blocks[k][1] # start
        IN  Holds(scan.blocks)

-----------------------------------------------------------------------------
(* Claims about the text that apply_properties and save() leave *)

\* b is one S-expression: the parenthesis that closes its first "(" is its
\* last character.
OneForm(b) == b # <<>> /\ b[1] = LP /\ FormEnd(b, 1) = Len(b) + 1

\* The name of the symbol block that starts at position start of txt.
NameAt(txt, start) ==
    LET Closed(q1, q2) == Slice(txt, q1 + 1, q2)
        Opened(q1) == Closed(q1, Find(txt, <<QT>>, q1 + 1))
    IN  Opened(Find(txt, <<QT>>, start))

\* The names of the blocks that _find_blocks finds in txt, in order.
BlockNames(txt) ==
    LET Named(blocks) == [k \in 1..Len(blocks) |-> NameAt(txt, blocks[k][1])]
    IN  Named(_find_blocks(txt))

\* C24: apply_properties keeps the file well-formed for every properties map
\* and every shape of the template property: what it inserts is balanced and
\* inside the target block, so that a block that was one S-expression still
\* is one, and after save() a new _find_blocks scan of the file finds as many
\* symbol blocks as before the edit, with the same names.
C24_StaysWellFormed ==
    [][ /\ (Called("apply_properties") /\ OneForm(PreBlock) => OneForm(block'))
        /\ (/\ op.name = "apply_properties" /\ ~ret.raised
            /\ op'.name = "save" /\ block_span # <<>>
            => BlockNames(sym_file') = BlockNames(sym_file)) ]_vars

-----------------------------------------------------------------------------
(* Claims about _ensure_entry on any table text *)

\* a step that is a call of _ensure_entry on a table file that has a ")"
EntryCalled == tbl'.name = "_ensure_entry" /\ tbl'.n = tbl.n + 1

\* the table file the call is about, before and after it
EntryTableBefore == IF tbl'.tbl_kind = "sym" THEN sym_tbl ELSE fp_tbl
EntryTableAfter == IF tbl'.tbl_kind = "sym" THEN sym_tbl' ELSE fp_tbl'

\* The entry is put immediately before the last ")" of `old`: what precedes
\* that parenthesis is kept, what follows the entry is the parenthesis and
\* the text after it with its trailing white space made one "\n".
EntryInserted(old, new, entry) ==
    LET At_(idx) ==
            /\ Head_(new, idx) = Head_(old, idx)
            /\ Slice(new, idx, idx + Len(entry)) = entry
            /\ Tail_(new, idx + Len(entry)) = Tail_(RStrip(old), idx) \o <<NL>>
            /\ new[idx + Len(entry)] = RP
    IN  At_(RFind(old, <<RP>>))

\* the number of forms that are open at position i of t
OpenAt(t, i) ==
    Cardinality({k \in 1..(i - 1) : t[k] = LP /\ ~InString(t, k)})
    - Cardinality({k \in 1..(i - 1) : t[k] = RP /\ ~InString(t, k)})

\* When the table is one form, the new entry is a form of its own directly
\* inside it.
EntryInTable(old, new, entry) ==
    LET At_(idx) == OneForm(Slice(new, idx + 2, idx + Len(entry) - 1))
                    /\ OpenAt(new, idx + 2) = 1
    IN  OneForm(RStrip(old)) => OneForm(RStrip(new)) /\ At_(RFind(old, <<RP>>))

\* C25: when _ensure_entry adds an entry to a table whose text contains a
\* ")", the text up to the table's last ")" is kept verbatim, the new
\* (lib ...) entry stands immediately before that parenthesis, inside the
\* table form, and after it nothing but trailing white space changes; when
\* it returns False the file is left as it was.
C25_EntryBeforeLastParen ==
    [][EntryCalled =>
          IF tbl'.ret
          THEN Contains(EntryTableBefore, <<RP>>) =>
                  /\ EntryInserted(EntryTableBefore, EntryTableAfter, tbl'.entry)
                  /\ EntryInTable(EntryTableBefore, EntryTableAfter, tbl'.entry)
          ELSE EntryTableAfter = EntryTableBefore]_vars

\* C25, with the line ends of the text that was there read as "\n": the
\* file is read and written in text mode.
C25_EntryBeforeLastParenAsRead ==
    [][EntryCalled =>
          IF tbl'.ret
          THEN Contains(EntryTableBefore, <<RP>>) =>
                  /\ EntryInserted(read_text(EntryTableBefore), EntryTableAfter, tbl'.entry)
                  /\ EntryInTable(read_text(EntryTableBefore), EntryTableAfter, tbl'.entry)
          ELSE EntryTableAfter = EntryTableBefore]_vars

\* C25's case: an entry has been added to a table that held another entry,
\* and a second call for the same library has returned False
C25_Witness ==
    /\ tbl.name = "_ensure_entry"
    /\ tbl.n = 2
    /\ ~tbl.ret
    /\ sym_tbl = TableOf("sym", LibEntry(<<"RC">>, OTHER_URI) \o LibEntry(<<"Resistors">>, LIB_URI))

====
